---- MODULE Spec2Model ----
(***************************************************************************)
(* A model of the VANET relay/acknowledgement protocol of                 *)
(* src/vanet/vehicle.py (LeadVehicle._drive, FleetVehicle._follow) and of  *)
(* the codec of src/vanet/model/packet.py (Packet, Acknowledgement).       *)
(*                                                                         *)
(* Datagrams are sequences of tokens: a token is a run of characters that  *)
(* the codec never splits (a word, a number, an address), or one of the    *)
(* separators the codec splits on (space, line break, ": ").               *)
(* Vehicles are identified by their IPv4 address; every vehicle uses the   *)
(* same UDP port, so the port is not modelled.                             *)
(***************************************************************************)
EXTENDS Integers, Sequences, FiniteSets, TLC

(***************************************************************************)
(* Bounds of the model.                                                    *)
(***************************************************************************)
\* number of followers in the fleet (orders 0 .. NumFollowers-1)
NumFollowers == 3
\* number of faults (a datagram lost, duplicated, late or out of order, a
\* stray datagram, a follower stopped)
MaxFaults == 1

Followers == 0 .. (NumFollowers - 1)

(***************************************************************************)
(* Tokens.                                                                 *)
(***************************************************************************)
W(s) == [k |-> "w", v |-> s]
I(n) == [k |-> "int", v |-> n]
F(x) == [k |-> "float", v |-> x]
A(a) == [k |-> "addr", v |-> a]
G(c) == [k |-> "gps", v |-> c]
SP  == [k |-> "sp", v |-> " "]
NL  == [k |-> "nl", v |-> "\n"]
SEP == [k |-> "sep", v |-> ": "]

RECURSIVE Digits(_)
Digits(n) == IF n < 0 THEN 1 + Digits(-n) ELSE IF n < 10 THEN 1 ELSE 1 + Digits(n \div 10)

RECURSIVE SumDigits(_)
SumDigits(a) == IF a = <<>> THEN 0 ELSE Digits(Head(a)) + SumDigits(Tail(a))

\* the number of bytes of a token in UTF-8
Width(t) ==
    CASE t.k = "w"     -> Len(t.v)
      [] t.k = "int"   -> Digits(t.v)
      [] t.k = "float" -> Digits(t.v) + 2
      [] t.k = "addr"  -> SumDigits(t.v) + (Len(t.v) - 1)
      [] t.k = "gps"   -> Digits(t.v[1]) + Digits(t.v[2]) + 8
      [] t.k = "sp"    -> 1
      [] t.k = "nl"    -> 1
      [] t.k = "sep"   -> 2
      [] t.k = "cut"   -> t.v

RECURSIVE ByteLen(_)
ByteLen(data) == IF data = <<>> THEN 0 ELSE Width(Head(data)) + ByteLen(Tail(data))

\* socket.recvfrom(n): the datagram cut to its first n bytes
RECURSIVE recvfrom(_, _)
recvfrom(data, n) ==
    IF data = <<>> \/ n <= 0 THEN <<>>
    ELSE IF Width(Head(data)) <= n
         THEN <<Head(data)>> \o recvfrom(Tail(data), n - Width(Head(data)))
         ELSE <<[k |-> "cut", v |-> n]>>

\* str.split(sep): the runs of tokens between the separators
RECURSIVE SplitAcc(_, _, _)
SplitAcc(data, sep, cur) ==
    IF data = <<>> THEN <<cur>>
    ELSE IF Head(data) = sep THEN <<cur>> \o SplitAcc(Tail(data), sep, <<>>)
    ELSE SplitAcc(Tail(data), sep, Append(cur, Head(data)))

split(data, sep) == SplitAcc(data, sep, <<>>)

\* str.partition(": "): the tokens before the first ": " and those after it
RECURSIVE FirstSep(_, _)
FirstSep(line, i) ==
    IF i > Len(line) THEN 0 ELSE IF line[i] = SEP THEN i ELSE FirstSep(line, i + 1)

partition(line) ==
    LET i == FirstSep(line, 1)
    IN  IF i = 0 THEN [k |-> line, v |-> <<>>]
        ELSE [k |-> SubSeq(line, 1, i - 1), v |-> SubSeq(line, i + 1, Len(line))]

\* str.lower() of the keys of a frame
lower(t) ==
    IF t.k # "w" THEN t
    ELSE CASE t.v = "SEQ" -> W("seq") [] t.v = "SRC" -> W("src") [] t.v = "DST" -> W("dst")
           [] t.v = "ORG" -> W("org") [] t.v = "VEH" -> W("veh") [] t.v = "CHK" -> W("chk")
           [] t.v = "CLK" -> W("clk") [] t.v = "GPS" -> W("gps") [] t.v = "BRK" -> W("brk")
           [] t.v = "GAS" -> W("gas") [] t.v = "ACC" -> W("acc") [] t.v = "VEL" -> W("vel")
           [] t.v = "RNG" -> W("rng") [] t.v = "VANET-V2V" -> W("vanet-v2v")
           [] OTHER -> t

LowerKey(k) == [i \in 1 .. Len(k) |-> lower(k[i])]

(***************************************************************************)
(* Numbers.  A float is modelled by an integer number of units; a          *)
(* coordinate by an integer number of millionths of a degree, so that the  *)
(* rounding to 5 decimal places is a rounding to a multiple of 10.         *)
(***************************************************************************)
\* int(str): defined on the text of an integer only
IsIntText(v) == Len(v) = 1 /\ v[1].k = "int"
\* float(str): defined on the text of an integer or of a float
IsFloatText(v) == Len(v) = 1 /\ v[1].k \in {"int", "float"}
\* ipaddress.IPv4Address(str): four octets of 0..255
IsIPv4Text(v) ==
    /\ Len(v) = 1
    /\ v[1].k = "addr"
    /\ Len(v[1].v) = 4
    /\ \A i \in 1 .. 4 : v[1].v[i] \in 0 .. 255
\* json.loads(str) is defined on this text
IsJsonText(v) == Len(v) = 1 /\ v[1].k \in {"gps", "int", "float"}
\* ... and yields a list of at least two numbers
IsJsonPair(v) == Len(v) = 1 /\ v[1].k = "gps"

\* float.__round__(5)
Round5(v) ==
    LET q == v \div 10
        r == v % 10
    IN  IF r < 5 THEN 10 * q
        ELSE IF r > 5 THEN 10 * (q + 1)
        ELSE IF q % 2 = 0 THEN 10 * q ELSE 10 * (q + 1)

Degrees(d) == d * 1000000

\* Coordinates.check_longitude_values
check_longitude_values(v) == ~(v > Degrees(180) \/ v < Degrees(-180))
\* Coordinates.check_latitude_values
check_latitude_values(v) == ~(v > Degrees(90) \/ v < Degrees(-90))
\* Coordinates(longitude, latitude), where the validators accept it
Coordinates(lon, lat) == <<Round5(lon), Round5(lat)>>

\* Packet.check_valid_sequence
check_valid_sequence(v) == ~(v < 0 \/ v > 9999)
\* a variant of check_velocity_range that rejects the ends of the range
check_velocity_strict(v) == ~(v <= 0 \/ v >= 300)
\* Packet.check_velocity_range
check_velocity_range(v) == ~(v < 0 \/ v > 300)
\* Packet.check_acceleration_range
check_acceleration_range(v) == ~(v < -15 \/ v > 15)
\* Packet.check_pedal_ranges
check_pedal_ranges(v) == ~(v < 0 \/ v > 100)

(***************************************************************************)
(* Packet (src/vanet/model/packet.py).  A Packet is a record of its        *)
(* fields; names are token sequences (words separated by SP).              *)
(***************************************************************************)
\* Packet._calculate_checksum: a number computed from the text with the
\* sentinel in place.  The decoder never reads it.  The characters of a word
\* are not kept by the token model, so each token counts for its width.
_calculate_checksum(data) == ByteLen(data)

PacketText(p, chk) ==
    <<W("VANET-V2V"), NL,
      W("SEQ"), SEP, I(p.sequence_number), NL,
      W("SRC"), SEP, A(p.source_address), NL,
      W("DST"), SEP, A(p.destination_address), NL,
      W("ORG"), SEP>> \o p.source_name \o <<NL,
      W("VEH"), SEP>> \o p.destination_name \o <<NL,
      W("CHK"), SEP, chk, NL,
      W("CLK"), SEP, F(p.timestamp), NL,
      W("GPS"), SEP, G(p.gps_position), NL,
      W("BRK"), SEP, F(p.brake_control), NL,
      W("GAS"), SEP, F(p.gas_throttle), NL,
      W("ACC"), SEP, F(p.acceleration), NL,
      W("VEL"), SEP, F(p.velocity), NL,
      W("RNG"), SEP, F(p.transmission_range)>>

\* Packet.get_packet at time `now`: the bytes of the frame
get_packet(p, now) ==
    LET stamped == [p EXCEPT !.timestamp = now]
        unprocessed_packet == PacketText(stamped, W("$SENTINEL$"))
    IN  PacketText(stamped, I(_calculate_checksum(unprocessed_packet)))

\* the dict of interpret_packet: a later line of the same key replaces an
\* earlier one
RECURSIVE BuildDict(_, _)
BuildDict(lines, dict) ==
    IF lines = <<>> THEN dict
    ELSE LET kv == partition(Head(lines))
         IN  BuildDict(Tail(lines), (LowerKey(kv.k) :> kv.v) @@ dict)

Key(s) == <<W(s)>>
RequiredKeys ==
    {"seq", "src", "dst", "org", "veh", "gps", "vel", "acc", "brk", "gas", "clk", "rng"}

\* json.loads raises on the value of a GPS line (outside the try block)
JsonRaises(lines) ==
    \E i \in 1 .. Len(lines) :
        LET kv == partition(lines[i]) IN kv.k = Key("GPS") /\ ~IsJsonText(kv.v)

None == [r |-> "none"]
Raise == [r |-> "raise"]

\* Packet.interpret_packet: a Packet, None (a corrupted packet) or an
\* exception that leaves the function
interpret_packet(data) ==
    LET lines == split(data, NL)
        d == BuildDict(lines, <<>>)
        has(k) == Key(k) \in DOMAIN d
        val(k) == d[Key(k)]
    IN  IF JsonRaises(lines) THEN Raise
        ELSE IF \E k \in RequiredKeys : ~has(k) THEN None
        ELSE IF ~IsIntText(val("seq")) THEN None
        ELSE IF ~IsIPv4Text(val("src")) \/ ~IsIPv4Text(val("dst")) THEN None
        ELSE IF ~IsJsonPair(val("gps")) THEN None
        ELSE IF \E k \in {"vel", "acc", "brk", "gas", "clk", "rng"} : ~IsFloatText(val(k))
             THEN None
        ELSE LET lon == val("gps")[1].v[1]
                 lat == val("gps")[1].v[2]
             IN  IF /\ check_longitude_values(lon)
                    /\ check_latitude_values(lat)
                    /\ check_valid_sequence(val("seq")[1].v)
                    /\ check_velocity_range(val("vel")[1].v)
                    /\ check_acceleration_range(val("acc")[1].v)
                    /\ check_pedal_ranges(val("brk")[1].v)
                    /\ check_pedal_ranges(val("gas")[1].v)
                 THEN [r |-> "packet",
                       sequence_number |-> val("seq")[1].v,
                       source_address |-> val("src")[1].v,
                       destination_address |-> val("dst")[1].v,
                       source_name |-> val("org"),
                       destination_name |-> val("veh"),
                       gps_position |-> Coordinates(lon, lat),
                       velocity |-> val("vel")[1].v,
                       acceleration |-> val("acc")[1].v,
                       brake_control |-> val("brk")[1].v,
                       gas_throttle |-> val("gas")[1].v,
                       timestamp |-> val("clk")[1].v,
                       transmission_range |-> val("rng")[1].v]
                 ELSE None

(***************************************************************************)
(* Acknowledgement (src/vanet/model/packet.py) and the ack a follower      *)
(* writes (vehicle.py, line 487).                                          *)
(***************************************************************************)
\* f"ACK {sequence} {own address} {source address} {own name}"
AckText(seq, origin, dest, name) ==
    <<W("ACK"), SP, I(seq), SP, A(origin), SP, A(dest), SP>> \o name

\* Acknowledgement.process_packet: the four fields, or ValueError
process_packet(data) ==
    LET values == split(data, SP)
    IN  IF Len(values) # 5 \/ values[1] # <<W("ACK")>> THEN Raise
        ELSE IF ~IsIntText(values[2]) THEN Raise
        ELSE [r |-> "ack",
              sequence |-> values[2][1].v,
              origin_address |-> values[3],
              destination_address |-> values[4],
              vehicle_name |-> values[5]]

\* the text of an address, as str(IPv4Address) and Client.address hold it
Str(a) == <<A(a)>>

(***************************************************************************)
(* The bytes of a datagram.  A telemetry frame in flight is held as the    *)
(* Packet that get_packet wrote (its bytes are get_packet of it); every    *)
(* other datagram is held as its text.                                     *)
(***************************************************************************)
NoPacket == [r |-> "none"]
FrameData(p) == [kind |-> "frame", p |-> p, t |-> <<>>]
TextData(t) == [kind |-> "text", p |-> NoPacket, t |-> t]

\* the bytes on the wire
Bytes(data) == IF data.kind = "frame" THEN get_packet(data.p, data.p.timestamp) ELSE data.t

\* the validators of Packet and Coordinates accept the fields
ValidFields(p) ==
    /\ check_valid_sequence(p.sequence_number)
    /\ check_velocity_range(p.velocity)
    /\ check_acceleration_range(p.acceleration)
    /\ check_pedal_ranges(p.brake_control)
    /\ check_pedal_ranges(p.gas_throttle)
    /\ check_longitude_values(p.gps_position[1])
    /\ check_latitude_values(p.gps_position[2])

\* the number of bytes of a datagram
DataLen(data) == ByteLen(Bytes(data))

\* socket.recvfrom(n) of a datagram
Recv(data, n) == IF DataLen(data) <= n THEN data ELSE TextData(recvfrom(Bytes(data), n))

\* Packet.interpret_packet of the bytes of a datagram
Interpret(data) == interpret_packet(Bytes(data))

(***************************************************************************)
(* The fleet: LeadVehicle and the Client list it is given; one             *)
(* FleetVehicle per Client.                                                *)
(***************************************************************************)
\* the packet quota per follower.  The code's literal is 20 (_drive: lines
\* 235 and 247, _follow: lines 551 to 558); the model scales it down, and
\* with it the literals the code derives from it
Quota == 3
\* the round limit of the lead (line 358) and the packet limit of a follower
\* (line 421): the literal 25, five more than the quota
MaxPolls == Quota + 5

LeadAddr == <<10, 0, 0, 100>>
\* an address that the topology does not declare
StrangerAddr == <<10, 0, 0, 99>>
\* Client.address of the follower of order f
Addr(f) == <<10, 0, 0, f + 1>>
\* Client.name, and the vehicle_name the follower of order f is started with
Name(f) == <<W("F" \o ToString(f))>>
LeadName == <<W("Lead")>>
\* Client.order is the position in the list; Client.vehicle_ahead links the
\* chain (None for the first)
NoVehicle == 0 - 1
vehicle_ahead(f) == IF f = 0 THEN NoVehicle ELSE f - 1
\* Client.get_simple_name: name.split(" ")[-1]
get_simple_name(name) == LET parts == split(name, SP) IN parts[Len(parts)]
\* LeadVehicle's transmission_range (the default of __init__)
LeadRange == 90
\* the transmission_range a follower may be configured with: that of the
\* followers near the lead and that of the followers beyond its reach, the
\* distance growing along the chain
NearRange == 50
FarRange == 120
Placements ==
    {[f \in Followers |-> IF f >= k THEN FarRange ELSE NearRange] :
        k \in 0 .. NumFollowers}

\* no datagram yet
NoDgram == [to |-> <<>>, from |-> <<>>, data |-> TextData(<<>>), age |-> 0]

\* the codec at rest
CodecIdle ==
    [stage |-> "idle", raw |-> NoPacket, obj |-> NoPacket, bytes |-> <<>>,
     origin |-> "none", dropped |-> "none", result |-> NoPacket]

VARIABLES
    pc,                         \* where the lead is: "loop", "listen", "done", "fatal"
    error,                      \* the exception that ended the lead, or "none"
    polls, sequence,
    last_received, last_attempted, out_of_range,    \* of each Client
    lead_fleet_failure, destination_reached,
    packets_sent, acknowledgements_received,
    packet,                     \* LeadVehicle.packet
    sends,                      \* the sendto calls of the lead in this round
    fleet,                      \* the state of each FleetVehicle
    range,                      \* the transmission_range of each FleetVehicle
    net,                        \* the datagrams in flight, oldest first
    faults,                     \* what the environment did so far: the faults
                                \* of the network, the datagrams it fed
    missed0,                    \* history: the timeouts that found the order-0
                                \* follower failing since its last ack
    heard,                      \* history: the last datagram a recvfrom returned,
                                \* what the receiver sent on it,
                                \* and a bit that every recvfrom flips
    flog,                       \* history: the frames for another vehicle each
                                \* follower decoded, and what it sent for them
    accepted,                   \* history: the sequence numbers of the frames of
                                \* the lead that each follower accepted
    codec                       \* a Packet on its way through the codec

leadVars == <<pc, error, polls, sequence, last_received, last_attempted, out_of_range,
              lead_fleet_failure, destination_reached, packets_sent,
              acknowledgements_received, packet, sends>>
histVars == <<missed0, heard, flog, accepted, codec>>
vars == <<leadVars, fleet, range, net, faults, histVars>>

\* the reading of the clock
Clock == polls

\* VehicleSensor.__init__ draws the readings at random within the ranges of
\* Packet; the sensor model is not part of the protocol and the readings are
\* held fixed
SensorPacket(src, dst, srcName, dstName, rng) ==
    [sequence_number |-> 0,
     source_address |-> src, destination_address |-> dst,
     source_name |-> srcName, destination_name |-> dstName,
     gps_position |-> Coordinates(Degrees(10), Degrees(20)),
     velocity |-> 60, acceleration |-> 5, brake_control |-> 0, gas_throttle |-> 50,
     timestamp |-> 0, transmission_range |-> rng]

IsLast(f) == f = NumFollowers - 1
\* Vehicle.__init__: follower_address / follower_name, own when given as "-"
follower_address(f) == IF IsLast(f) THEN Addr(f) ELSE Addr(f + 1)
follower_name(f) == IF IsLast(f) THEN Name(f) ELSE Name(f + 1)
\* FleetVehicle.__init__: following_name
following_name(f) == IF f = 0 THEN LeadName ELSE Name(f - 1)
NoAddress == <<>>

\* FleetVehicle.__init__
FleetVehicleInit(f) ==
    [fpc |-> "run",
     num_pkts |-> 0,
     last_seq |-> 0,
     last_seq_forwarded |-> 0,
     last_seq_sent |-> 1,
     last_seq_received |-> 0,
     following_address |-> IF following_name(f) # LeadName THEN Addr(f - 1) ELSE NoAddress,
     flooding_protocol_container |-> <<>>,
     DONE |-> FALSE,
     packet_sequence_number |-> 0]

\* Vehicle.packet of the follower of order f
FleetPacket(f) ==
    [SensorPacket(Addr(f), follower_address(f), Name(f), follower_name(f), range[f])
        EXCEPT !.sequence_number = fleet[f].packet_sequence_number]

\* LeadVehicle.__init__, the Client defaults, and FleetVehicle.__init__ of
\* every follower
Constructed ==
    /\ pc = "loop"
    /\ error = "none"
    /\ polls = 0
    /\ sequence = 1
    /\ last_received = [f \in Followers |-> 0]
    /\ last_attempted = [f \in Followers |-> 1]
    /\ out_of_range = [f \in Followers |-> FALSE]
    /\ lead_fleet_failure = FALSE
    /\ destination_reached = FALSE
    /\ packets_sent = 0
    /\ acknowledgements_received = 0
    /\ packet = SensorPacket(LeadAddr, Addr(0), LeadName, Name(0), LeadRange)
    /\ sends = <<>>
    /\ fleet = [f \in Followers |-> FleetVehicleInit(f)]
    /\ net = <<>>
    /\ faults = <<>>
    /\ missed0 = 0
    /\ heard = [n |-> 0, d |-> NoDgram, out |-> <<>>]
    /\ flog = [f \in Followers |-> <<>>]
    /\ accepted = [f \in Followers |-> {}]

Init ==
    /\ Constructed
    /\ range \in Placements
    /\ codec = CodecIdle

(***************************************************************************)
(* The network.  A datagram is [to, from, data].  A datagram sent to a     *)
(* process that has ended is dropped by its host.                          *)
(***************************************************************************)
Dgram(to, from, data) == [to |-> to, from |-> from, data |-> data]

\* The time a datagram takes is far below the timeout of the lead (500 ms).
\* A datagram in flight carries the number of hops since the sweep that
\* caused it; beyond MaxHops hops, more than the longest path of a frame and
\* of its ack along the chain, the timeout of the lead no longer waits for it.
MaxHops == 2 * NumFollowers + 2
Sent(q, age) ==
    [i \in 1 .. Len(q) |->
        [to |-> q[i].to, from |-> q[i].from, data |-> q[i].data,
         age |-> IF age > MaxHops THEN MaxHops + 1 ELSE age]]
\* the datagrams the timeout of the lead waits for
Awaited(b) == {i \in DOMAIN b : b[i].age <= MaxHops}

Listening(a, leadpc, fl) ==
    \/ a = LeadAddr /\ leadpc \in {"loop", "listen"}
    \/ \E f \in Followers : a = Addr(f) /\ fl[f].fpc = "run"

\* the datagrams b in flight with the datagrams of q sent after them, for the
\* processes that still run
Deliver(b, q, leadpc, fl) ==
    SelectSeq(b \o q, LAMBDA d : Listening(d.to, leadpc, fl))

Remove(q, i) == SubSeq(q, 1, i - 1) \o SubSeq(q, i + 1, Len(q))

ToFollowers(b) == {i \in DOMAIN b : b[i].to # LeadAddr}

\* the receiver of the i-th datagram is in recvfrom
Ready(i) == net[i].to = LeadAddr => pc = "listen"
FirstReady(i) == Ready(i) /\ \A j \in 1 .. (i - 1) : ~Ready(j)

Fault(kind) == Append(faults, kind)
MayFault == Len(faults) < MaxFaults

\* datagrams arrive in the order they were sent, unless one overtakes the
\* others, which is a fault
InOrder(i) ==
    \/ FirstReady(i) /\ UNCHANGED faults
    \/ Ready(i) /\ ~FirstReady(i) /\ MayFault /\ faults' = Fault("reordered")

(***************************************************************************)
(* LeadVehicle._drive                                                      *)
(***************************************************************************)
\* a variant of TunnelWalk that stops at the first vehicle ahead
TunnelNoSkip(f, parent_vehicle) ==
    IF f = 0 \/ parent_vehicle = NoVehicle THEN NoVehicle ELSE parent_vehicle

\* the tunneling walk (lines 267-279): the order of the forwarder of
\* follower f, or NoVehicle where the walk raises ValueError
RECURSIVE TunnelWalk(_, _)
TunnelWalk(f, parent_vehicle) ==
    IF f = 0 \/ parent_vehicle = NoVehicle THEN NoVehicle
    ELSE IF ~out_of_range[parent_vehicle] THEN parent_vehicle
    ELSE TunnelWalk(f, vehicle_ahead(parent_vehicle))

\* a variant of NextHop without tunneling
NextHopDirect(f) == f

\* the socket-level next hop of a frame for follower f
NextHop(f) == IF ~out_of_range[f] THEN f ELSE TunnelWalk(f, vehicle_ahead(f))

\* the follower is skipped by the sweep
Skipped(f) == last_received[f] = Quota

\* the send sweep (lines 245-283) from follower i on; st holds
\* last_attempted, the packet, the sendto calls so far and whether the walk
\* raised
RECURSIVE Sweep(_, _)
Sweep(i, st) ==
    IF i = NumFollowers \/ st.raised THEN st
    ELSE IF Skipped(i) THEN Sweep(i + 1, st)
    ELSE LET la == [st.la EXCEPT ![i] = last_received[i] + 1]
             pkt == [st.pkt EXCEPT !.destination_address = Addr(i),
                                   !.destination_name = get_simple_name(Name(i)),
                                   !.sequence_number = la[i],
                                   !.timestamp = Clock]
             hop == NextHop(i)
         IN  IF hop = NoVehicle
             THEN [st EXCEPT !.la = la, !.pkt = pkt, !.raised = TRUE]
             ELSE Sweep(i + 1,
                        [la |-> la, pkt |-> pkt, raised |-> FALSE,
                         out |-> Append(st.out,
                                        [target |-> i,
                                         d |-> Dgram(Addr(hop), LeadAddr, FrameData(pkt))])])

Datagrams(out) == [i \in 1 .. Len(out) |-> out[i].d]

\* the quota check (lines 233-240)
AllDelivered == \A f \in Followers : last_received[f] = Quota

\* time passes only when the network has delivered what it carries, unless the
\* network is late, which is a fault
InTime(pending) ==
    \/ pending = {} /\ UNCHANGED faults
    \/ pending # {} /\ MayFault /\ faults' = Fault("late")

\* one iteration of the loop of _drive up to the listen phase
LeadSweep ==
    /\ pc = "loop"
    /\ IF AllDelivered
       THEN /\ destination_reached' = TRUE
            /\ pc' = "done"
            /\ packet' = [packet EXCEPT !.timestamp = Clock]
            /\ net' = Deliver(net, <<>>, "done", fleet)
            /\ UNCHANGED <<error, last_attempted, packets_sent,
                           acknowledgements_received, sends, faults>>
       ELSE /\ InTime(ToFollowers(net) \cap Awaited(net))
            /\ LET st == Sweep(0, [la |-> last_attempted,
                                   pkt |-> [packet EXCEPT !.timestamp = Clock],
                                   raised |-> FALSE, out |-> <<>>])
               IN  /\ last_attempted' = st.la
                   /\ packet' = st.pkt
                   /\ sends' = st.out
                   /\ packets_sent' = Len(st.out)
                   /\ acknowledgements_received' = 0
                   /\ pc' = IF st.raised THEN "fatal" ELSE "listen"
                   /\ error' = IF st.raised THEN "tunnel" ELSE error
                   /\ net' = Deliver(net, Sent(Datagrams(st.out), 0), pc', fleet)
                   /\ UNCHANGED destination_reached
    /\ UNCHANGED <<polls, sequence, last_received, out_of_range, lead_fleet_failure,
                   fleet, range, histVars>>

\* a variant of EndRound without the round limit
EndRoundNoLimit ==
    /\ polls' = polls + 1
    /\ sequence' = sequence + 1
    /\ destination_reached' = FALSE
    /\ pc' = "loop"

\* a variant of EndRound that counts a round twice
EndRoundTwice ==
    /\ polls' = polls + 2
    /\ sequence' = sequence + 1
    /\ destination_reached' = (polls' >= MaxPolls)
    /\ pc' = IF destination_reached' THEN "done" ELSE "loop"

\* the end of a round (lines 343-359): the poll counter, the sensor update
\* (which leaves the readings within the ranges of Packet), the round limit;
\* then the loop condition
EndRound ==
    /\ polls' = polls + 1
    /\ sequence' = sequence + 1
    /\ destination_reached' = (polls' >= MaxPolls)
    /\ pc' = IF destination_reached' THEN "done" ELSE "loop"

\* a variant of index that falls back on the first Client
indexOrFirst(text) ==
    IF \E f \in Followers : Str(Addr(f)) = text
    THEN CHOOSE f \in Followers : Str(Addr(f)) = text
    ELSE 0

\* list.index with Client.__eq__: the first Client whose address is the
\* text; NoVehicle where index raises ValueError
index(text) ==
    IF \E f \in Followers : Str(Addr(f)) = text
    THEN CHOOSE f \in Followers : Str(Addr(f)) = text
    ELSE NoVehicle

\* a variant of FlagAfterAck where the ack of any client clears the flag
FlagAfterAnyAck(client) == FALSE

\* the flag after the ack of a client (lines 306-308)
FlagAfterAck(client) ==
    IF lead_fleet_failure /\ client = 0 THEN FALSE ELSE lead_fleet_failure

\* a variant of Credit that counts the ack for every follower
CreditAll(client) == [f \in Followers |-> last_received[f] + 1]

\* client.last_received += 1 (line 310)
Credit(client) == [last_received EXCEPT ![client] = @ + 1]

\* one pass of the listen loop (lines 294-320) on the i-th datagram
LeadRecv(i) ==
    /\ pc = "listen"
    /\ net[i].to = LeadAddr
    /\ InOrder(i)
    /\ acknowledgements_received' = acknowledgements_received + 1
    /\ heard' = [n |-> 1 - heard.n, d |-> net[i], out |-> <<>>]
    /\ LET d == net[i]
           response_msg == Recv(d.data, 50)
           ack == process_packet(Bytes(response_msg))
           client == IF ack.r = "ack" THEN index(ack.origin_address) ELSE NoVehicle
           forwarder == index(Str(d.from))
           rest == Remove(net, i)
       IN  IF ack.r # "ack"
           THEN /\ pc' = "fatal"
                /\ error' = "corrupt_ack"
                /\ net' = Deliver(rest, <<>>, "fatal", fleet)
                /\ UNCHANGED <<polls, sequence, last_received, lead_fleet_failure,
                               destination_reached, missed0>>
           ELSE IF client = NoVehicle \/ forwarder = NoVehicle
           THEN /\ pc' = "fatal"
                /\ error' = "unknown_peer"
                /\ net' = Deliver(rest, <<>>, "fatal", fleet)
                /\ UNCHANGED <<polls, sequence, last_received, lead_fleet_failure,
                               destination_reached, missed0>>
           ELSE /\ lead_fleet_failure' = FlagAfterAck(client)
                /\ missed0' = IF client = 0 THEN 0 ELSE missed0
                /\ last_received' = Credit(client)
                /\ IF packets_sent = acknowledgements_received'
                   THEN EndRound
                   ELSE UNCHANGED <<polls, sequence, destination_reached, pc>>
                /\ net' = Deliver(rest, <<>>, pc', fleet)
                /\ UNCHANGED error
    /\ UNCHANGED <<last_attempted, out_of_range, packets_sent, packet, sends,
                   fleet, range, flog, accepted, codec>>

\* the followers the timeout handler finds failing (line 325)
Failing(f) == last_received[f] # last_attempted[f]

\* a variant of Flagged that marks the order-0 follower like the others
FlaggedWhenFailing(f) == out_of_range[f] \/ Failing(f)

\* a variant of Flagged that marks no follower
FlaggedAsBefore(f) == out_of_range[f]

\* a variant of Flagged that marks the followers failing now and clears the
\* mark of the others
FlaggedWhileFailing(f) == f # 0 /\ Failing(f)

\* out_of_range of follower f after the timeout handler (lines 325-341)
Flagged(f) == out_of_range[f] \/ (f # 0 /\ Failing(f))

\* the timeout handler (lines 321-341), then the end of the round
LeadTimeout ==
    /\ pc = "listen"
    /\ InTime(Awaited(net))
    /\ IF Failing(0) /\ lead_fleet_failure
       THEN /\ pc' = "fatal"
            /\ error' = "order0"
            /\ UNCHANGED <<polls, sequence, destination_reached, out_of_range,
                           lead_fleet_failure>>
       ELSE /\ lead_fleet_failure' = (lead_fleet_failure \/ Failing(0))
            /\ out_of_range' = [f \in Followers |-> Flagged(f)]
            /\ EndRound
            /\ UNCHANGED error
    /\ net' = Deliver(net, <<>>, pc', fleet)
    /\ missed0' = IF Failing(0) THEN missed0 + 1 ELSE missed0
    /\ UNCHANGED <<last_received, last_attempted, packets_sent,
                   acknowledgements_received, packet, sends, fleet, range,
                   heard, flog, accepted, codec>>

(***************************************************************************)
(* FleetVehicle._follow.  A pass of the loop is a function of the state s  *)
(* of the vehicle, the datagram and its sender; it yields the new state    *)
(* and the datagrams the vehicle sends.                                    *)
(***************************************************************************)
Step(s, out) == [s |-> s, out |-> out]
Crashed(s, out) == [s |-> [s EXCEPT !.fpc = "crash"], out |-> out]
Left(s, out) == [s |-> [s EXCEPT !.fpc = "done"], out |-> out]

\* len(self.flooding_protocol_container)
ContainerLen(s) ==
    Cardinality(DOMAIN s.flooding_protocol_container) + (IF s.DONE THEN 1 ELSE 0)

\* a variant of AckBranch that keeps every ack for itself
AckBranchKeep(f, s, incoming_data, client_address) ==
    IF process_packet(Bytes(incoming_data)).r # "ack" THEN Crashed(s, <<>>)
    ELSE Step([s EXCEPT !.last_seq_sent = @ + 1], <<>>)

\* the ack branch (lines 426-452)
AckBranch(f, s, incoming_data, client_address) ==
    LET incoming_packet == process_packet(Bytes(incoming_data))
        s1 == IF s.following_address = NoAddress
              THEN [s EXCEPT !.following_address = client_address]
              ELSE s
    IN  IF incoming_packet.r # "ack" THEN Crashed(s, <<>>)
        ELSE IF incoming_packet.destination_address = Str(Addr(f))
        THEN Step([s1 EXCEPT !.last_seq_sent = @ + 1], <<>>)
        ELSE LET s2 == [s1 EXCEPT !.last_seq_forwarded = incoming_packet.sequence]
                 out == <<Dgram(s1.following_address, Addr(f), incoming_data)>>
             IN  IF s2.DONE THEN Left(s2, out) ELSE Step(s2, out)

\* the range check (lines 460-464): "drop", "pass", or "raise" where
\* following_address is None and is subscripted
RangeCheck(f, s, pkt, client_address) ==
    IF client_address # pkt.source_address THEN "pass"
    ELSE IF ~(pkt.transmission_range < range[f]) THEN "pass"
    ELSE IF s.following_address = NoAddress THEN "raise"
    ELSE IF client_address # s.following_address THEN "drop"
    ELSE "pass"

\* a variant of AckOf that answers the declared source of the frame
AckToSource(f, pkt, client_address) ==
    Dgram(pkt.source_address, Addr(f),
          TextData(AckText(pkt.sequence_number, Addr(f), pkt.source_address, Name(f))))

\* the acknowledgement of a frame and where it is sent (line 487)
AckOf(f, pkt, client_address) ==
    Dgram(client_address, Addr(f),
          TextData(AckText(pkt.sequence_number, Addr(f), pkt.source_address, Name(f))))

\* the frame is for this vehicle (lines 476-529)
Accept(f, s, pkt, client_address) ==
    LET ack == AckOf(f, pkt, client_address)
        s1 == IF s.following_address = NoAddress
              THEN [s EXCEPT !.following_address = client_address]
              ELSE s
    IN  IF pkt.source_name # LeadName
        THEN [s |-> [s1 EXCEPT !.last_seq_received = @ + 1], out |-> <<ack>>, more |-> FALSE]
        ELSE LET s2 == [s1 EXCEPT !.last_seq = pkt.sequence_number, !.num_pkts = @ + 1]
             IN  IF follower_name(f) = Name(f)
                 THEN [s |-> s2, out |-> <<ack>>, more |-> TRUE]
                 ELSE IF ~check_valid_sequence(s2.last_seq_sent)
                 THEN [s |-> [s2 EXCEPT !.fpc = "crash"], out |-> <<ack>>, more |-> FALSE]
                 ELSE LET s3 == [s2 EXCEPT !.packet_sequence_number = s2.last_seq_sent]
                          own == [SensorPacket(Addr(f), follower_address(f), Name(f),
                                               follower_name(f), range[f])
                                     EXCEPT !.sequence_number = s3.packet_sequence_number,
                                            !.timestamp = Clock]
                      IN  [s |-> s3,
                           out |-> <<ack, Dgram(own.destination_address, Addr(f),
                                                FrameData(own))>>,
                           more |-> TRUE]

\* a variant of AlreadyFlooded that looks at the sequence number alone
AlreadyFloodedBySeq(s, pkt) ==
    /\ pkt.sequence_number \in DOMAIN s.flooding_protocol_container
    /\ s.flooding_protocol_container[pkt.sequence_number] # <<>>

\* the cache already holds the destination for the sequence number
AlreadyFlooded(s, pkt) ==
    /\ pkt.sequence_number \in DOMAIN s.flooding_protocol_container
    /\ \E i \in 1 .. Len(s.flooding_protocol_container[pkt.sequence_number]) :
           s.flooding_protocol_container[pkt.sequence_number][i] = pkt.destination_address

\* a variant of Flood that forwards and records nothing
FloodUnrecorded(f, s, pkt, incoming_data) ==
    [s |-> s,
     out |-> <<Dgram(pkt.destination_address, Addr(f), incoming_data)>>,
     more |-> TRUE]

\* the frame is for another vehicle (lines 531-545)
Flood(f, s, pkt, incoming_data) ==
    LET c == s.flooding_protocol_container
        c1 == IF pkt.sequence_number \in DOMAIN c THEN c
              ELSE (pkt.sequence_number :> <<>>) @@ c
        s1 == [s EXCEPT !.flooding_protocol_container = c1]
    IN  IF ~AlreadyFlooded(s1, pkt)
        THEN [s |-> [s1 EXCEPT !.flooding_protocol_container[pkt.sequence_number] =
                                    Append(@, pkt.destination_address)],
              out |-> <<Dgram(pkt.destination_address, Addr(f), incoming_data)>>,
              more |-> TRUE]
        ELSE [s |-> s1, out |-> <<>>, more |-> TRUE]

\* the exit check (lines 550-559)
ExitCheck(s, out) ==
    IF ~(s.last_seq >= Quota) THEN Step(s, out)
    ELSE LET vals == ContainerLen(s)
             c == s.flooding_protocol_container
         IN  IF vals = 0 THEN Left(s, out)
             ELSE IF vals # Quota THEN Step(s, out)
             ELSE IF ~(Quota \in DOMAIN c /\ 1 \in DOMAIN c) THEN Crashed(s, out)
             ELSE IF Len(c[Quota]) = Len(c[1]) /\ s.last_seq_forwarded = Quota
                  THEN Step([s EXCEPT !.DONE = TRUE], out)
                  ELSE Step(s, out)

\* the telemetry branch (lines 455-559)
TelemetryBranch(f, s, incoming_data, client_address) ==
    LET incoming_packet == Interpret(incoming_data)
    IN  IF incoming_packet.r # "packet" THEN Crashed(s, <<>>)
        ELSE LET rc == RangeCheck(f, s, incoming_packet, client_address)
             IN  IF rc = "raise" THEN Crashed(s, <<>>)
                 ELSE IF rc = "drop" THEN Step(s, <<>>)
                 ELSE LET r == IF incoming_packet.destination_address = Addr(f)
                               THEN Accept(f, s, incoming_packet, client_address)
                               ELSE Flood(f, s, incoming_packet, incoming_data)
                      IN  IF r.more THEN ExitCheck(r.s, r.out) ELSE Step(r.s, r.out)

\* the loop condition (line 421)
LoopCondition(r) ==
    IF r.s.fpc = "run" /\ (r.s.num_pkts >= MaxPolls \/ r.s.last_seq_forwarded = Quota + 1)
    THEN Left(r.s, r.out)
    ELSE r

\* one pass of the loop on the datagram data from client_address
Follow(f, s, data, client_address) ==
    LET incoming_data == Recv(data, 300)
    IN  LoopCondition(IF DataLen(incoming_data) < 50
                      THEN AckBranch(f, s, incoming_data, client_address)
                      ELSE TelemetryBranch(f, s, incoming_data, client_address))

\* history: what the pass did with a frame for another vehicle
Relayed(f, s, d, out) ==
    LET incoming_data == Recv(d.data, 300)
        incoming_packet == Interpret(incoming_data)
    IN  IF DataLen(incoming_data) < 50 \/ incoming_packet.r # "packet" THEN <<>>
        ELSE IF incoming_packet.destination_address = Addr(f) THEN <<>>
        ELSE <<[sequence_number |-> incoming_packet.sequence_number,
                destination_address |-> incoming_packet.destination_address,
                check |-> RangeCheck(f, s, incoming_packet, d.from),
                data |-> incoming_data,
                out |-> out]>>

\* history: the sequence number of the frame, where the pass accepted a
\* frame of the lead (it passed the range check and names the vehicle as
\* its destination)
AcceptedOfLead(f, s, d) ==
    LET incoming_data == Recv(d.data, 300)
        incoming_packet == Interpret(incoming_data)
    IN  IF DataLen(incoming_data) < 50 \/ incoming_packet.r # "packet" THEN {}
        ELSE IF RangeCheck(f, s, incoming_packet, d.from) # "pass" THEN {}
        ELSE IF incoming_packet.destination_address # Addr(f) THEN {}
        ELSE IF incoming_packet.source_address # LeadAddr THEN {}
        ELSE {incoming_packet.sequence_number}

FollowRecv(f, i) ==
    /\ fleet[f].fpc = "run"
    /\ net[i].to = Addr(f)
    /\ InOrder(i)
    /\ LET r == Follow(f, fleet[f], net[i].data, net[i].from)
       IN  /\ fleet' = [fleet EXCEPT ![f] = r.s]
           /\ net' = Deliver(Remove(net, i), Sent(r.out, net[i].age + 1), pc, fleet')
           /\ flog' = [flog EXCEPT ![f] = @ \o Relayed(f, fleet[f], net[i], r.out)]
           /\ heard' = [n |-> 1 - heard.n, d |-> net[i], out |-> r.out]
           /\ accepted' = [accepted EXCEPT ![f] = @ \cup AcceptedOfLead(f, fleet[f], net[i])]
    /\ UNCHANGED <<leadVars, range, missed0, codec>>

(***************************************************************************)
(* The faults of the network and of its hosts.                             *)
(***************************************************************************)
\* a datagram is lost
Lose(i) ==
    /\ MayFault
    /\ net' = Remove(net, i)
    /\ faults' = Fault("lost")
    /\ UNCHANGED <<leadVars, fleet, range, histVars>>

\* a datagram is delivered twice, the copy after what is in flight
Duplicate(i) ==
    /\ MayFault
    /\ net' = Append(net, net[i])
    /\ faults' = Fault("duplicated")
    /\ UNCHANGED <<leadVars, fleet, range, histVars>>

\* a follower stops between two rounds (its vehicle leaves, its process is
\* killed)
Stop(f) ==
    /\ MayFault
    /\ pc = "loop"
    /\ fleet[f].fpc = "run"
    /\ fleet' = [fleet EXCEPT ![f].fpc = "crash"]
    /\ net' = Deliver(net, <<>>, pc, fleet')
    /\ faults' = Fault("stopped")
    /\ UNCHANGED <<leadVars, range, histVars>>

\* datagrams that no vehicle of the fleet wrote
Strays ==
    {Dgram(LeadAddr, Addr(0), TextData(<<W("NAK"), SP, I(1)>>)),
     Dgram(LeadAddr, StrangerAddr, TextData(AckText(1, StrangerAddr, LeadAddr, <<W("X")>>))),
     Dgram(LeadAddr, StrangerAddr, TextData(AckText(1, Addr(0), LeadAddr, Name(0)))),
     Dgram(Addr(0), StrangerAddr, TextData(<<W("NAK"), SP, I(1)>>))}

Stray(d) ==
    /\ MayFault
    /\ d \in Strays
    /\ net' = Deliver(net, Sent(<<d>>, 0), pc, fleet)
    /\ faults' = Fault("stray")
    /\ UNCHANGED <<leadVars, fleet, range, histVars>>

Next ==
    \/ LeadSweep
    \/ \E i \in DOMAIN net : LeadRecv(i)
    \/ LeadTimeout
    \/ \E f \in Followers : \E i \in DOMAIN net : FollowRecv(f, i)
    \/ \E i \in DOMAIN net : Lose(i)
    \/ \E i \in DOMAIN net : Duplicate(i)
    \/ \E f \in Followers : Stop(f)
    \/ \E d \in Strays : Stray(d)

Spec == Init /\ [][Next]_vars

(***************************************************************************)
(* The fleet on a network that loses more: the lead and the followers as   *)
(* in Spec, and datagrams are lost up to MaxLosses times in a run.         *)
(***************************************************************************)
\* the number of faults of a run on the network that loses more
MaxLosses == 2

\* a datagram is lost
Drop(i) ==
    /\ Len(faults) < MaxLosses
    /\ net' = Remove(net, i)
    /\ faults' = Fault("lost")
    /\ UNCHANGED <<leadVars, fleet, range, histVars>>

NextLossy ==
    \/ LeadSweep
    \/ \E i \in DOMAIN net : LeadRecv(i)
    \/ LeadTimeout
    \/ \E f \in Followers : \E i \in DOMAIN net : FollowRecv(f, i)
    \/ \E i \in DOMAIN net : Drop(i)

SpecLossy == Init /\ [][NextLossy]_vars

(***************************************************************************)
(* One follower on its own: the other vehicles do not run, and datagrams   *)
(* of any origin arrive at its socket, one at a time.                      *)
(***************************************************************************)
\* the number of datagrams the follower is given
MaxFrames == 3

\* the frame of the lead for follower g with sequence number n
LeadFrame(g, n) ==
    FrameData([SensorPacket(LeadAddr, Addr(g), LeadName, Name(g), LeadRange)
                  EXCEPT !.sequence_number = n])

\* the datagrams that may arrive at follower f: frames of the lead for any
\* follower, straight from the lead or passed on by order 0, a text that is
\* no acknowledgement, and the acks of the last follower: of a frame of f
\* and of a frame of the lead
Inbound(f) ==
    {Dgram(Addr(f), from, LeadFrame(g, n)) :
        from \in {LeadAddr, Addr(0)} \ {Addr(f)}, g \in Followers, n \in 1 .. 2}
    \cup {Dgram(Addr(f), StrangerAddr, TextData(<<W("NAK"), SP, I(1)>>))}
    \cup {Dgram(Addr(f), Addr(NumFollowers - 1),
                TextData(AckText(2, Addr(NumFollowers - 1), to, Name(NumFollowers - 1)))) :
              to \in {Addr(f), LeadAddr}}

InitFollow ==
    /\ pc = "done"
    /\ error = "none"
    /\ polls = 0
    /\ sequence = 1
    /\ last_received = [f \in Followers |-> 0]
    /\ last_attempted = [f \in Followers |-> 1]
    /\ out_of_range = [f \in Followers |-> FALSE]
    /\ lead_fleet_failure = FALSE
    /\ destination_reached = FALSE
    /\ packets_sent = 0
    /\ acknowledgements_received = 0
    /\ packet = SensorPacket(LeadAddr, Addr(0), LeadName, Name(0), LeadRange)
    /\ sends = <<>>
    /\ \E g \in Followers :
           fleet = [f \in Followers |->
                       IF f = g THEN FleetVehicleInit(f)
                       ELSE [FleetVehicleInit(f) EXCEPT !.fpc = "crash"]]
    /\ range \in [Followers -> {NearRange, FarRange}]
    /\ \A f \in Followers : fleet[f].fpc # "run" => range[f] = NearRange
    /\ net = <<>>
    /\ faults = <<>>
    /\ missed0 = 0
    /\ heard = [n |-> 0, d |-> NoDgram, out |-> <<>>]
    /\ flog = [f \in Followers |-> <<>>]
    /\ accepted = [f \in Followers |-> {}]
    /\ codec = CodecIdle

\* a datagram arrives at the socket of the follower
Feed(d) ==
    /\ net = <<>>
    /\ Len(faults) < MaxFrames
    /\ \E f \in Followers : fleet[f].fpc = "run" /\ d \in Inbound(f)
    /\ net' = Sent(<<d>>, 0)
    /\ faults' = Fault("fed")
    /\ UNCHANGED <<leadVars, fleet, range, histVars>>

NextFollow ==
    \/ \E f \in Followers : \E d \in Inbound(f) : Feed(d)
    \/ \E f \in Followers : \E i \in DOMAIN net : FollowRecv(f, i)

SpecFollow == InitFollow /\ [][NextFollow]_vars

(***************************************************************************)
(* The codec on its own: a Packet is built from given fields, written by   *)
(* get_packet and read back by interpret_packet; or the text of a frame    *)
(* comes from the wire, with any values and with a line missing, and is    *)
(* read by interpret_packet.                                               *)
(***************************************************************************)
BaseFields ==
    [SensorPacket(LeadAddr, Addr(0), LeadName, Name(0), LeadRange)
        EXCEPT !.sequence_number = 1, !.gps_position = <<Degrees(10), Degrees(20)>>]

OneLineNames ==
    {<<W("F0")>>, <<W("Fleet"), SP, W("One")>>, <<W("a"), SEP, W("b")>>, <<>>}
TwoLineNames == {<<W("F0"), NL, W("X")>>, <<W("F0"), NL, W("SEQ"), SEP, I(7)>>}

\* the fields a frame is given: those of BaseFields with one of them changed,
\* to the ends of its range, just beyond them, and to values inside
GivenFields ==
    {[BaseFields EXCEPT !.sequence_number = v] : v \in {0 - 1, 0, 9999, 10000}}
    \cup {[BaseFields EXCEPT !.velocity = v] : v \in {0 - 1, 0, 300, 301}}
    \cup {[BaseFields EXCEPT !.acceleration = v] : v \in {0 - 16, 0 - 15, 15, 16}}
    \cup {[BaseFields EXCEPT !.brake_control = v] : v \in {0 - 1, 0, 100, 101}}
    \cup {[BaseFields EXCEPT !.gas_throttle = v] : v \in {0 - 1, 0, 100, 101}}
    \cup {[BaseFields EXCEPT !.gps_position[1] = v] :
              v \in {Degrees(0 - 180) - 1, Degrees(0 - 180), Degrees(180),
                     Degrees(180) + 1, Degrees(10) + 4, Degrees(10) + 5, Degrees(10) + 15}}
    \cup {[BaseFields EXCEPT !.gps_position[2] = v] :
              v \in {Degrees(0 - 90) - 1, Degrees(0 - 90), Degrees(90),
                     Degrees(90) + 1, Degrees(20) + 6}}
    \cup {[BaseFields EXCEPT !.source_address = a] :
              a \in {<<0, 0, 0, 0>>, <<255, 255, 255, 255>>, <<10, 0, 0, 256>>, <<10, 0, 0>>}}
    \cup {[BaseFields EXCEPT !.destination_address = a] :
              a \in {<<10, 0, 0, 256>>, <<10, 0, 0, 0, 1>>}}
    \cup {[BaseFields EXCEPT !.source_name = n] : n \in OneLineNames \cup TwoLineNames}
    \cup {[BaseFields EXCEPT !.destination_name = n] : n \in OneLineNames \cup TwoLineNames}
    \cup {[BaseFields EXCEPT !.transmission_range = v] : v \in {0 - 5, 0, 100000}}

\* ipaddress.IPv4Address accepts the address
IsIPv4(a) == Len(a) = 4 /\ \A i \in 1 .. 4 : a[i] \in 0 .. 255

InitCodec ==
    /\ Constructed
    /\ range = [f \in Followers |-> NearRange]
    /\ codec \in {[CodecIdle EXCEPT !.stage = "given", !.raw = p] : p \in GivenFields}

\* Packet(...): the validators of Packet and of Coordinates
Construct ==
    /\ codec.stage = "given"
    /\ codec' =
           IF /\ ValidFields(codec.raw)
              /\ IsIPv4(codec.raw.source_address)
              /\ IsIPv4(codec.raw.destination_address)
           THEN [codec EXCEPT !.stage = "packet",
                              !.obj = [codec.raw EXCEPT !.gps_position =
                                          Coordinates(codec.raw.gps_position[1],
                                                      codec.raw.gps_position[2])]]
           ELSE [codec EXCEPT !.stage = "rejected"]
    /\ UNCHANGED <<leadVars, fleet, range, net, faults, missed0, heard, flog, accepted>>

\* the times get_packet may stamp
Stamps == {0, 7}

\* Packet.get_packet
Encode(now) ==
    /\ codec.stage = "packet"
    /\ codec' = [codec EXCEPT !.stage = "bytes", !.origin = "encode",
                              !.obj = [codec.obj EXCEPT !.timestamp = now],
                              !.bytes = get_packet(codec.obj, now)]
    /\ UNCHANGED <<leadVars, fleet, range, net, faults, missed0, heard, flog, accepted>>

RECURSIVE Join(_)
Join(lines) ==
    IF lines = <<>> THEN <<>>
    ELSE IF Len(lines) = 1 THEN lines[1]
    ELSE lines[1] \o <<NL>> \o Join(Tail(lines))

\* the text without the lines of key k
WithoutKey(text, k) ==
    Join(SelectSeq(split(text, NL), LAMBDA l : LowerKey(partition(l).k) # Key(k)))

\* a frame arrives that another program wrote: the text of the given fields,
\* whatever their values, and without the line of key k unless k is "none"
Write(k) ==
    /\ codec.stage = "given"
    /\ codec' = [codec EXCEPT !.stage = "bytes", !.origin = "wire", !.dropped = k,
                              !.bytes = WithoutKey(PacketText(codec.raw, I(0)), k)]
    /\ UNCHANGED <<leadVars, fleet, range, net, faults, missed0, heard, flog, accepted>>

\* Packet.interpret_packet
Decode ==
    /\ codec.stage = "bytes"
    /\ codec' = [codec EXCEPT !.stage = "decoded",
                              !.result = interpret_packet(codec.bytes)]
    /\ UNCHANGED <<leadVars, fleet, range, net, faults, missed0, heard, flog, accepted>>

NextCodec ==
    \/ Construct
    \/ \E now \in Stamps : Encode(now)
    \/ \E k \in RequiredKeys \cup {"none"} : Write(k)
    \/ Decode

SpecCodec == InitCodec /\ [][NextCodec]_vars

(***************************************************************************)
(* The acknowledgement on its own: a follower writes the ack of a frame it *)
(* accepted (vehicle.py, line 487), or a text comes from the wire; the     *)
(* text is decoded by process_packet, read by a follower (line 423) or     *)
(* read by the lead (line 296).  A telemetry frame that a vehicle writes   *)
(* is read by a follower in the same way.                                  *)
(***************************************************************************)
\* the sequence numbers of the frames a follower acknowledges
AckSequences == {0, 1, 20, 9999}
\* the addresses a vehicle may have: short ones, and one of 15 characters
AckAddresses == {Addr(0), LeadAddr, <<192, 168, 100, 101>>}
\* the names a follower may be started with: of one word, of 2, 8 and 9
\* characters, of two words, and the empty name
AckNames ==
    {<<W("F0")>>, <<W("Vehicle1")>>, <<W("Follower1")>>, <<W("Fleet"), SP, W("One")>>, <<>>}

\* what a follower puts into an ack: the sequence number of the frame, its
\* own address, the source address of the frame, its own name
GivenAcks ==
    [sequence : AckSequences, origin_address : AckAddresses,
     destination_address : AckAddresses, vehicle_name : AckNames]
NoAck == [sequence |-> 0 - 1, origin_address |-> <<>>, destination_address |-> <<>>,
          vehicle_name |-> <<>>]

\* texts that another program wrote: an ack as a follower writes it, a text
\* with another first word, with a field missing, with a field more, with a
\* sequence number that is no integer, and the empty datagram
WireTexts ==
    {AckText(7, Addr(1), LeadAddr, <<W("F1")>>),
     <<W("NAK"), SP, I(1), SP, A(Addr(0)), SP, A(LeadAddr), SP, W("F0")>>,
     <<W("ACK"), SP, I(1), SP, A(Addr(0)), SP, A(LeadAddr)>>,
     <<W("ACK"), SP, I(1), SP, A(Addr(0)), SP, A(LeadAddr), SP, W("F0"), SP, W("X")>>,
     <<W("ACK"), SP, W("one"), SP, A(Addr(0)), SP, A(LeadAddr), SP, W("F0")>>,
     <<W("ACK"), SP, F(1), SP, A(Addr(0)), SP, A(LeadAddr), SP, W("F0")>>,
     <<>>}

\* the telemetry frames a vehicle may write: that of the lead, and the
\* shortest one (empty names, the shortest addresses and numbers)
SmallFrames ==
    {BaseFields,
     [sequence_number |-> 0,
      source_address |-> <<0, 0, 0, 0>>, destination_address |-> <<0, 0, 0, 0>>,
      source_name |-> <<>>, destination_name |-> <<>>,
      gps_position |-> Coordinates(0, 0),
      velocity |-> 0, acceleration |-> 0, brake_control |-> 0, gas_throttle |-> 0,
      timestamp |-> 0, transmission_range |-> 0]}

AckIdle ==
    [stage |-> "given", kind |-> "none", ack |-> NoAck, p |-> NoPacket, bytes |-> <<>>,
     reader |-> "none", branch |-> "none", read |-> <<>>, result |-> NoPacket]

InitAck ==
    /\ Constructed
    /\ range = [f \in Followers |-> NearRange]
    /\ codec \in {[AckIdle EXCEPT !.kind = "ack", !.ack = a] : a \in GivenAcks}
                 \cup {[AckIdle EXCEPT !.kind = "text", !.stage = "bytes", !.bytes = t] :
                          t \in WireTexts}
                 \cup {[AckIdle EXCEPT !.kind = "frame", !.p = p] : p \in SmallFrames}

\* the ack a follower writes (line 487)
WriteAck ==
    /\ codec.stage = "given" /\ codec.kind = "ack"
    /\ codec' = [codec EXCEPT !.stage = "bytes",
                              !.bytes = AckText(codec.ack.sequence, codec.ack.origin_address,
                                                codec.ack.destination_address,
                                                codec.ack.vehicle_name)]
    /\ UNCHANGED <<leadVars, fleet, range, net, faults, missed0, heard, flog, accepted>>

\* the frame a vehicle writes (lines 265, 282 and 529)
WriteFrame(now) ==
    /\ codec.stage = "given" /\ codec.kind = "frame"
    /\ codec' = [codec EXCEPT !.stage = "bytes", !.bytes = get_packet(codec.p, now)]
    /\ UNCHANGED <<leadVars, fleet, range, net, faults, missed0, heard, flog, accepted>>

\* Acknowledgement().process_packet of the text
DecodeAck ==
    /\ codec.stage = "bytes" /\ codec.kind \in {"ack", "text"}
    /\ codec' = [codec EXCEPT !.stage = "decoded", !.read = codec.bytes,
                              !.result = process_packet(codec.bytes)]
    /\ UNCHANGED <<leadVars, fleet, range, net, faults, missed0, heard, flog, accepted>>

\* a follower reads the datagram (lines 423-428 and 455): the branch it
\* takes by the length, and what the decoder of the branch returns
FollowerReads ==
    /\ codec.stage = "bytes"
    /\ LET incoming_data == Recv(TextData(codec.bytes), 300)
           branch == IF DataLen(incoming_data) < 50 THEN "ack" ELSE "telemetry"
       IN  codec' = [codec EXCEPT !.stage = "read", !.reader = "follower",
                                  !.branch = branch,
                                  !.read = Bytes(incoming_data),
                                  !.result = IF branch = "ack"
                                             THEN process_packet(Bytes(incoming_data))
                                             ELSE Interpret(incoming_data)]
    /\ UNCHANGED <<leadVars, fleet, range, net, faults, missed0, heard, flog, accepted>>

\* the lead reads the datagram (lines 296-298)
LeadReads ==
    /\ codec.stage = "bytes" /\ codec.kind \in {"ack", "text"}
    /\ LET response_msg == Recv(TextData(codec.bytes), 50)
       IN  codec' = [codec EXCEPT !.stage = "read", !.reader = "lead",
                                  !.branch = "ack",
                                  !.read = Bytes(response_msg),
                                  !.result = process_packet(Bytes(response_msg))]
    /\ UNCHANGED <<leadVars, fleet, range, net, faults, missed0, heard, flog, accepted>>

NextAck ==
    \/ WriteAck
    \/ \E now \in Stamps : WriteFrame(now)
    \/ DecodeAck
    \/ FollowerReads
    \/ LeadReads

SpecAck == InitAck /\ [][NextAck]_vars

\* the step of LeadRecv or FollowRecv that takes the oldest datagram whose
\* receiver is in recvfrom, told by what it records in heard
Receive ==
    \E i \in DOMAIN net :
        FirstReady(i) /\ heard'.n # heard.n /\ heard'.d = net[i]

\* The vehicles run: the lead's thread is scheduled, a recvfrom returns a
\* datagram that has arrived, and the lead's socket timeout (500 ms) expires
\* when nothing arrives.
\* Weak fairness of Receive is written with its enabling condition spelled
\* out: a receiver in recvfrom has a datagram waiting.
CanReceive == \E i \in DOMAIN net : Ready(i)

FairSpec ==
    /\ Spec
    /\ WF_vars(LeadSweep)
    /\ WF_vars(LeadTimeout)
    /\ ([]<>(~CanReceive) \/ []<><<Receive>>_vars)

(***************************************************************************)
(* The end-to-end run without losses.                                      *)
(***************************************************************************)
\* nothing has been lost, duplicated, delayed or added so far, and no
\* follower drops the frames of the lead for their range
NoLosses == faults = <<>> /\ \A f \in Followers : range[f] = NearRange

\* C1: while nothing is lost, duplicated or dropped for range, the lead
\* never aborts and flags no follower unreachable, its listen phase never
\* runs out of datagrams to wait for (so that no round times out), and the
\* run is complete after exactly Quota rounds with every follower's
\* last_received equal to Quota.
C1_NoLossesRun ==
    NoLosses =>
        /\ pc # "fatal" /\ error = "none"
        /\ \A f \in Followers : ~out_of_range[f] /\ last_received[f] <= Quota
        /\ ~lead_fleet_failure
        /\ polls <= Quota
        /\ pc = "listen" => net # <<>>
        /\ pc = "done" => /\ polls = Quota
                          /\ \A f \in Followers : last_received[f] = Quota

C1_Witness ==
    /\ NoLosses
    /\ pc = "done"
    /\ polls = Quota
    /\ \A f \in Followers : last_received[f] = Quota

(***************************************************************************)
(* The order-0 follower.                                                   *)
(***************************************************************************)
\* C2: one timeout that finds the order-0 follower failing (its
\* last_received differs from its last_attempted) only sets
\* lead_fleet_failure; the lead aborts for the order-0 follower exactly at
\* the second such timeout with no ack of the order-0 follower in between.
C2_Order0Tolerance ==
    /\ missed0 <= 2
    /\ (error = "order0") <=> (missed0 = 2)
    /\ error = "order0" => pc = "fatal"
    /\ missed0 = 1 => lead_fleet_failure
    /\ missed0 = 0 => ~lead_fleet_failure

C2_Witness == error = "order0" /\ pc = "fatal" /\ polls >= 1 /\ missed0 = 2

(***************************************************************************)
(* Tunneling.                                                              *)
(***************************************************************************)
\* the followers ahead of follower t that are not flagged unreachable
ReachableAhead(t) == {h \in Followers : h < t /\ ~out_of_range[h]}
Max(S) == CHOOSE m \in S : \A x \in S : x <= m

\* C3: every frame the sweep of the round sent for a follower t that is
\* flagged unreachable went to the socket address of the follower of the
\* greatest order below t that is not flagged, and every frame names the
\* lead as its source and t as its destination.
C3_TunnelingNextHop ==
    pc = "listen" =>
        \A i \in DOMAIN sends :
            LET t == sends[i].target
                d == sends[i].d
                p == d.data.p
            IN  /\ d.from = LeadAddr
                /\ p.source_address = LeadAddr /\ p.source_name = LeadName
                /\ p.destination_address = Addr(t) /\ p.destination_name = Name(t)
                /\ out_of_range[t] =>
                       /\ ReachableAhead(t) # {}
                       /\ d.to = Addr(Max(ReachableAhead(t)))
                       /\ d.to # Addr(t)

\* a frame went past an unreachable vehicle ahead of its destination
C3_Witness ==
    /\ pc = "listen"
    /\ \E i \in DOMAIN sends :
           /\ sends[i].target >= 2
           /\ out_of_range[sends[i].target]
           /\ out_of_range[sends[i].target - 1]
           /\ sends[i].d.to = Addr(Max(ReachableAhead(sends[i].target)))

(***************************************************************************)
(* The silent follower at the end of the chain.                            *)
(***************************************************************************)
Last == NumFollowers - 1

\* the last follower stopped before it acknowledged anything, which is the
\* only fault, and the lead's frames reach the others
SilentLast ==
    /\ faults = <<"stopped">>
    /\ fleet[Last].fpc = "crash"
    /\ last_received[Last] = 0
    /\ \A f \in Followers \ {Last} : range[f] = NearRange

\* C4: in a chain whose last follower never acknowledges while the others
\* do, the last follower is flagged unreachable from the end of round 1 on
\* and no other follower is; the frame of round 1 for it goes to its own
\* address, and the frame of every later round goes to the address of the
\* follower ahead of it, with the destination address and name of the last
\* follower and its first undelivered sequence number.
C4_SilentFollower ==
    SilentLast =>
        /\ \A f \in Followers : out_of_range[f] <=> (f = Last /\ polls >= 1)
        /\ pc = "listen" =>
               \E i \in DOMAIN sends :
                   LET d == sends[i].d
                       p == d.data.p
                   IN  /\ sends[i].target = Last
                       /\ d.to = IF polls >= 1 THEN Addr(Last - 1) ELSE Addr(Last)
                       /\ p.destination_address = Addr(Last)
                       /\ p.destination_name = Name(Last)
                       /\ p.sequence_number = last_received[Last] + 1

C4_Witness == SilentLast /\ pc = "listen" /\ polls >= 2 /\ out_of_range[Last]

(***************************************************************************)
(* The termination of the lead.                                            *)
(***************************************************************************)
Ended == pc \in {"done", "fatal"}
QuotaReached == \A f \in Followers : last_received[f] = Quota

\* a step of the lead as to its rounds: polls grows by one exactly when a
\* round ends (the listen phase is left without an abort), and at the top of
\* the loop with the quota reached the lead ends and sends nothing
RoundStep ==
    /\ polls' \in {polls, polls + 1}
    /\ (polls' = polls + 1) <=> (pc = "listen" /\ pc' \in {"loop", "done"})
    /\ (pc = "loop" /\ QuotaReached /\ pc' # pc) =>
           /\ pc' = "done"
           /\ polls' = polls /\ packets_sent' = packets_sent /\ sends' = sends
    /\ (pc = "loop" /\ ~QuotaReached /\ pc' # pc) => pc' \in {"listen", "fatal"}
    /\ Ended => pc' = pc /\ polls' = polls

Hears(a) == heard'.n # heard.n /\ heard'.d.to = a

\* the first n bytes of the datagram do not decode as an acknowledgement
Malformed(d, n) == process_packet(Bytes(Recv(d.data, n))).r # "ack"

\* C7 (as stated): when the lead, in its listen phase, or a follower, in
\* its ack branch, receives a datagram that does not decode as an
\* acknowledgement, the process goes on and none of its counters changes.
C7_MalformedRecovered ==
    [][/\ (Hears(LeadAddr) /\ Malformed(heard'.d, 50)) =>
              /\ pc' # "fatal" /\ error' = error
              /\ last_received' = last_received /\ sequence' = sequence
       /\ \A f \in Followers :
              (/\ Hears(Addr(f))
               /\ DataLen(Recv(heard'.d.data, 300)) < 50
               /\ Malformed(heard'.d, 300)) =>
                  /\ fleet'[f].fpc = "run"
                  /\ fleet'[f].last_seq_sent = fleet[f].last_seq_sent
                  /\ fleet'[f].last_seq_forwarded = fleet[f].last_seq_forwarded
                  /\ fleet'[f].last_seq_received = fleet[f].last_seq_received
                  /\ fleet'[f].last_seq = fleet[f].last_seq]_vars

\* the lead ended on a datagram that is no acknowledgement
C7_Witness ==
    /\ heard.d.to = LeadAddr
    /\ Malformed(heard.d, 50)
    /\ pc = "fatal"
    /\ error = "corrupt_ack"

\* the datagram is a well-formed acknowledgement whose origin address or
\* whose sender is the address of no follower
KnownAddr(a) == \E f \in Followers : a = Addr(f)
UnknownPeer(d) ==
    LET ack == process_packet(Bytes(Recv(d.data, 50)))
    IN  /\ ack.r = "ack"
        /\ \/ ~(\E f \in Followers : ack.origin_address = <<A(Addr(f))>>)
           \/ ~KnownAddr(d.from)

\* C8: when the lead receives a well-formed acknowledgement whose origin
\* address or whose sender matches no follower, it aborts and the
\* last_received of every follower is as before.
C8_UnknownPeerFatal ==
    [][(Hears(LeadAddr) /\ UnknownPeer(heard'.d)) =>
           /\ pc' = "fatal"
           /\ error' = "unknown_peer"
           /\ last_received' = last_received]_vars

\* the lead aborted on an acknowledgement that names a follower as its origin
\* and came from an address of no follower
C8_Witness ==
    /\ heard.d.to = LeadAddr
    /\ UnknownPeer(heard.d)
    /\ ~KnownAddr(heard.d.from)
    /\ KnownAddr(process_packet(Bytes(Recv(heard.d.data, 50))).origin_address[1].v)
    /\ pc = "fatal"
    /\ error = "unknown_peer"

(***************************************************************************)
(* Flood suppression.                                                      *)
(***************************************************************************)
\* the i-th frame for another vehicle that follower f decoded was sent on,
\* as it came, to the address of its destination
Forwarded(f, i) ==
    flog[f][i].out = <<Dgram(flog[f][i].destination_address, Addr(f), flog[f][i].data)>>

SamePair(f, i, j) ==
    /\ flog[f][i].sequence_number = flog[f][j].sequence_number
    /\ flog[f][i].destination_address = flog[f][j].destination_address

\* the frame passed the range check
Passed(f, i) == flog[f][i].check = "pass"

KeptFields ==
    {"sequence_number", "source_address", "destination_address", "source_name",
     "destination_name", "gps_position", "velocity", "acceleration", "brake_control",
     "gas_throttle", "transmission_range"}

RoundTrip ==
    /\ codec.result.r = "packet"
    /\ \A k \in KeptFields : codec.result[k] = codec.obj[k]

\* C9 (as stated): interpret_packet of get_packet of a Packet, whose fields
\* are within their ranges, is a Packet with the same sequence number,
\* addresses, names, position, velocity, acceleration, pedals and range.
C9_RoundTrip ==
    (codec.stage = "decoded" /\ codec.origin = "encode") => RoundTrip

\* the round trip of a Packet whose names hold no line break
OneLine(name) == \A i \in 1 .. Len(name) : name[i] # NL
RoundTripOfOneLineNames ==
    (/\ codec.stage = "decoded" /\ codec.origin = "encode"
     /\ OneLine(codec.obj.source_name) /\ OneLine(codec.obj.destination_name))
        => RoundTrip

\* a Packet whose source name holds a line break came back with another
\* sequence number
C9_Witness ==
    /\ codec.stage = "decoded" /\ codec.origin = "encode"
    /\ ~OneLine(codec.obj.source_name)
    /\ codec.result.r = "packet"
    /\ codec.result.sequence_number # codec.obj.sequence_number

\* the values of the text are within the ranges of the fields
WithinRanges(p) ==
    /\ p.sequence_number \in 0 .. 9999
    /\ p.velocity \in 0 .. 300
    /\ p.acceleration \in (0 - 15) .. 15
    /\ p.brake_control \in 0 .. 100
    /\ p.gas_throttle \in 0 .. 100
    /\ p.gps_position[1] \in Degrees(0 - 180) .. Degrees(180)
    /\ p.gps_position[2] \in Degrees(0 - 90) .. Degrees(90)
DottedQuad(a) == Len(a) = 4 /\ \A i \in 1 .. 4 : a[i] \in 0 .. 255

\* C10: interpret_packet returns None for a text whose sequence number,
\* velocity, acceleration, brake, throttle, longitude or latitude is outside
\* its range, that lacks a required key, or whose source or destination
\* address is no dotted quad; it returns a Packet for a text that has every
\* key, values within the ranges and dotted quads.
C10_RangeRejection ==
    (codec.stage = "decoded" /\ codec.origin = "wire") =>
        IF /\ WithinRanges(codec.raw)
           /\ codec.dropped = "none"
           /\ DottedQuad(codec.raw.source_address)
           /\ DottedQuad(codec.raw.destination_address)
        THEN codec.result.r = "packet"
        ELSE codec.result = None

\* a text with a velocity just beyond the range was refused
C10_Witness ==
    /\ codec.stage = "decoded" /\ codec.origin = "wire"
    /\ codec.dropped = "none"
    /\ codec.raw.velocity = 301
    /\ codec.result = None

(***************************************************************************)
(* The send sweep of the lead.                                             *)
(***************************************************************************)
\* the sendto calls of a sweep whose frame names follower f as destination
SentFor(out, f) ==
    {i \in DOMAIN out : out[i].d.data.p.destination_address = Addr(f)}
\* the datagrams in flight that the lead sent
LeadFramesInFlight(b) == Len(SelectSeq(b, LAMBDA d : d.from = LeadAddr))
\* the step is a send sweep of the lead
Sweeps == pc = "loop" /\ pc' = "listen"

\* the frames of a sweep: one for each follower for which `due` holds, none
\* for the others, each with sequence number last_received + 1, recorded as
\* last_attempted, and the address of the follower as destination
SweepSends(due(_)) ==
    \A f \in Followers :
        /\ Cardinality(SentFor(sends', f)) = IF due(f) THEN 1 ELSE 0
        /\ \A i \in SentFor(sends', f) :
               /\ sends'[i].target = f
               /\ sends'[i].d.data.p.sequence_number = last_received[f] + 1
               /\ last_attempted'[f] = last_received[f] + 1
\* the frame whose ack was missed is sent again with its sequence number
SweepRetries ==
    \A f \in Followers : \A i \in SentFor(sends', f) :
        last_received[f] < last_attempted[f] =>
            sends'[i].d.data.p.sequence_number = last_attempted[f]
\* the lead sends nothing while it listens
NoResend ==
    (pc = "listen" /\ faults' = faults) =>
        /\ sends' = sends
        /\ LeadFramesInFlight(net') <= LeadFramesInFlight(net)

BelowQuota(f) == last_received[f] < Quota
NotAtQuota(f) == last_received[f] # Quota

\* C11 (as stated): every sweep sends exactly one frame for each follower
\* whose last_received is below the quota and none for a follower that has
\* reached it, with sequence number last_received + 1 = last_attempted and
\* the follower's address as destination; nothing is sent again within the
\* round, and a missed frame goes out with the same sequence number in the
\* next round.
C11_SendSweep ==
    [][/\ Sweeps => (SweepSends(BelowQuota) /\ SweepRetries)
       /\ NoResend]_vars

\* what the sweep does: the followers it skips are those whose
\* last_received is the quota exactly
SweepOfTheCode ==
    [][/\ Sweeps => (SweepSends(NotAtQuota) /\ SweepRetries)
       /\ NoResend]_vars

\* a sweep sent a frame for a follower whose last_received is beyond the quota
C11_Witness ==
    /\ pc = "listen"
    /\ \E f \in Followers :
           /\ last_attempted[f] > Quota + 1
           /\ SentFor(sends, f) # {}

(***************************************************************************)
(* The listen phase of the lead.                                           *)
(***************************************************************************)
\* the datagram is a well-formed acknowledgement of a follower, sent by a
\* follower
ValidAck(d) ==
    /\ process_packet(Bytes(Recv(d.data, 50))).r = "ack"
    /\ ~UnknownPeer(d)
\* the follower whose address is the origin address of the acknowledgement
Origin(d) ==
    CHOOSE f \in Followers :
        process_packet(Bytes(Recv(d.data, 50))).origin_address = <<A(Addr(f))>>

\* C12: a valid ack that the lead receives while it listens adds one to
\* last_received of the follower at the ack's origin address and leaves the
\* last_received of the others, every last_attempted and every out_of_range
\* as they were; the listen phase ends without a timeout exactly when the
\* datagrams received in the round are as many as the frames sent in it.
C12_AckAccounting ==
    /\ [][(Hears(LeadAddr) /\ ValidAck(heard'.d)) =>
              /\ \A f \in Followers :
                     last_received'[f] =
                         last_received[f] + (IF f = Origin(heard'.d) THEN 1 ELSE 0)
              /\ last_attempted' = last_attempted
              /\ out_of_range' = out_of_range
              /\ acknowledgements_received' = acknowledgements_received + 1
              /\ pc' # "fatal"
              /\ (pc' # "listen") <=> (acknowledgements_received' = packets_sent)]_vars
    /\ [](pc = "listen" => acknowledgements_received < packets_sent)
    /\ [][Sweeps => (acknowledgements_received' = 0 /\ packets_sent' = Len(sends'))]_vars

\* the last ack of a round, passed on by another follower than its origin,
\* ended the listen phase
C12_Witness ==
    /\ heard.d.to = LeadAddr
    /\ ValidAck(heard.d)
    /\ heard.d.from # Addr(Origin(heard.d))
    /\ pc = "loop"
    /\ acknowledgements_received = packets_sent
    /\ packets_sent > 1

(***************************************************************************)
(* The timeout of the listen phase.                                        *)
(***************************************************************************)
\* the step is a timeout of the listen phase: the lead leaves the phase
\* and no recvfrom returned
TimesOut == pc = "listen" /\ pc' # "listen" /\ heard' = heard

\* the flags after a timeout that the handler got through
FlagsAfterTimeout ==
    \A f \in Followers :
        /\ (f > 0 /\ Failing(f)) => out_of_range'[f]
        /\ ~Failing(f) => (out_of_range'[f] = out_of_range[f])

\* C13 (as stated): on a timeout every follower of order above 0 whose
\* last_received differs from its last_attempted is flagged, every follower
\* whose last_received equals its last_attempted keeps its flag, the
\* timeout is fatal for no follower of order above 0, the round counter
\* advances and the next round starts.
C13_TimeoutHandling ==
    [][TimesOut =>
           /\ FlagsAfterTimeout
           /\ pc' = "fatal" => Failing(0)
           /\ polls' = polls + 1
           /\ pc' = "loop"]_vars

\* C13 (amended): the same, unless the timeout is the second miss of the
\* order-0 follower, which ends the run with no flag and no counter
\* changed; and the next round starts unless the round counter has reached
\* its limit, which ends the run.
C13_TimeoutHandlingUnlessAbort ==
    [][TimesOut =>
           IF Failing(0) /\ lead_fleet_failure
           THEN /\ pc' = "fatal"
                /\ out_of_range' = out_of_range
                /\ polls' = polls
           ELSE /\ FlagsAfterTimeout
                /\ polls' = polls + 1
                /\ pc' = IF polls' >= MaxPolls THEN "done" ELSE "loop"]_vars

\* a timeout flagged one follower behind the first and left another alone
C13_Witness ==
    /\ pc = "loop"
    /\ polls > 0
    /\ \E f, g \in Followers \ {0} :
           /\ out_of_range[f] /\ last_received[f] # last_attempted[f]
           /\ ~out_of_range[g] /\ last_received[g] = last_attempted[g]

(***************************************************************************)
(* The head of the chain.                                                  *)
(***************************************************************************)
\* C14: the order-0 follower is never flagged out_of_range, the tunneling
\* walk from every flagged follower finds a forwarder that is not flagged,
\* and the lead never raises the error of the walk.
C14_HeadNeverTunnels ==
    /\ ~out_of_range[0]
    /\ error # "tunnel"
    /\ \A f \in Followers :
           out_of_range[f] =>
               /\ TunnelWalk(f, vehicle_ahead(f)) \in Followers
               /\ ~out_of_range[TunnelWalk(f, vehicle_ahead(f))]

\* the order-0 follower has missed an ack, every follower behind it is
\* flagged, and the lead has sent the frames of the next round
C14_Witness ==
    /\ lead_fleet_failure
    /\ \A f \in Followers \ {0} : out_of_range[f]
    /\ pc = "listen"
    /\ polls > 0
    /\ \A i \in DOMAIN sends : sends[i].d.to = Addr(0)

(***************************************************************************)
(* The telemetry branch of a follower.                                     *)
(***************************************************************************)
\* the datagram is taken by the telemetry branch of follower f and decodes
\* to a Packet
IsFrame(d) ==
    /\ ~(DataLen(Recv(d.data, 300)) < 50)
    /\ Interpret(Recv(d.data, 300)).r = "packet"
FrameOf(d) == Interpret(Recv(d.data, 300))
\* the acknowledgements among the datagrams a vehicle sent
AcksIn(out) == SelectSeq(out, LAMBDA d : process_packet(Bytes(d.data)).r = "ack")
\* the frame d passes the range check of follower f and names f as its
\* destination
Accepted(f, d) ==
    /\ IsFrame(d)
    /\ RangeCheck(f, fleet[f], FrameOf(d), d.from) = "pass"
    /\ FrameOf(d).destination_address = Addr(f)

\* C15: for every frame that passes the range check and names the follower
\* as destination, the follower sends exactly one ack, to the sender of the
\* datagram, with the frame's sequence number, its own address as origin,
\* the frame's source address as destination and its own name; for a frame
\* that it drops or forwards it sends no ack.
C15_AcceptAndAck ==
    [][\A f \in Followers :
           (Hears(Addr(f)) /\ IsFrame(heard'.d)) =>
               IF Accepted(f, heard'.d)
               THEN /\ Len(AcksIn(heard'.out)) = 1
                    /\ AcksIn(heard'.out)[1].to = heard'.d.from
                    /\ AcksIn(heard'.out)[1].from = Addr(f)
                    /\ process_packet(Bytes(AcksIn(heard'.out)[1].data)) =
                           [r |-> "ack",
                            sequence |-> FrameOf(heard'.d).sequence_number,
                            origin_address |-> Str(Addr(f)),
                            destination_address |-> Str(FrameOf(heard'.d).source_address),
                            vehicle_name |-> Name(f)]
               ELSE AcksIn(heard'.out) = <<>>]_vars

\* a follower acknowledged, to the follower that passed it on, a frame of
\* the lead with a sequence number it had accepted before
C15_Witness ==
    \E f \in Followers :
        /\ heard.d.to = Addr(f)
        /\ IsFrame(heard.d)
        /\ FrameOf(heard.d).destination_address = Addr(f)
        /\ FrameOf(heard.d).source_address = LeadAddr
        /\ heard.d.from # LeadAddr
        /\ Len(AcksIn(heard.out)) = 1
        /\ AcksIn(heard.out)[1].to = heard.d.from
        /\ fleet[f].num_pkts > FrameOf(heard.d).sequence_number

(***************************************************************************)
(* The ack branch of a follower.                                           *)
(***************************************************************************)
\* the datagram is taken by the ack branch and decodes as an ack
IsAck(d) ==
    /\ DataLen(Recv(d.data, 300)) < 50
    /\ process_packet(Bytes(Recv(d.data, 300))).r = "ack"
AckIn(d) == process_packet(Bytes(Recv(d.data, 300)))
\* the address a follower forwards to: following_address, which is the
\* sender of the datagram where none was known
Upstream(f, d) ==
    IF fleet[f].following_address # NoAddress THEN fleet[f].following_address ELSE d.from

FromItsSource(d) == d.from = FrameOf(d).source_address
BelowThreshold(f, d) == FrameOf(d).transmission_range < range[f]
NotFromUpstream(f, d) ==
    fleet[f].following_address # NoAddress /\ d.from # fleet[f].following_address

\* the follower did nothing with the frame and goes on
SilentlyDropped(f) ==
    /\ heard'.out = <<>>
    /\ fleet'[f] = fleet[f]
\* the frame reached the decision between accepting and forwarding: it was
\* acknowledged, or its pair is in the cache
WentOn(f, d) ==
    /\ fleet'[f].fpc # "crash"
    /\ IF FrameOf(d).destination_address = Addr(f)
       THEN Len(AcksIn(heard'.out)) = 1
       ELSE AlreadyFlooded(fleet'[f], FrameOf(d))

\* C17 (as stated): a follower silently drops a frame exactly when the
\* sender is the declared source, the frame's transmission_range is below
\* the follower's, and the sender is not the known upstream neighbour; in
\* every other case, also where no upstream address is known yet, the frame
\* goes on to the accept-or-forward decision and the follower keeps running.
C17_RangeDrop ==
    [][\A f \in Followers :
           (Hears(Addr(f)) /\ IsFrame(heard'.d)) =>
               IF /\ FromItsSource(heard'.d)
                  /\ BelowThreshold(f, heard'.d)
                  /\ NotFromUpstream(f, heard'.d)
               THEN SilentlyDropped(f)
               ELSE WentOn(f, heard'.d)]_vars

\* what the range check does: as stated, but where the first two conditions
\* hold and no upstream address is known the follower ends on an exception
RangeDropOfTheCode ==
    [][\A f \in Followers :
           (Hears(Addr(f)) /\ IsFrame(heard'.d)) =>
               IF FromItsSource(heard'.d) /\ BelowThreshold(f, heard'.d)
               THEN IF fleet[f].following_address = NoAddress
                    THEN fleet'[f].fpc = "crash" /\ heard'.out = <<>>
                    ELSE IF NotFromUpstream(f, heard'.d)
                    THEN SilentlyDropped(f)
                    ELSE WentOn(f, heard'.d)
               ELSE WentOn(f, heard'.d)]_vars

\* the order-0 follower, with no upstream address yet, ended on a frame
\* that came straight from the lead with a range below its own
C17_Witness ==
    /\ heard.d.to = Addr(0)
    /\ IsFrame(heard.d)
    /\ FromItsSource(heard.d)
    /\ BelowThreshold(0, heard.d)
    /\ fleet[0].following_address = NoAddress
    /\ fleet[0].fpc = "crash"

(***************************************************************************)
(* The frames a follower sends of its own.                                 *)
(***************************************************************************)
\* the telemetry frames of follower f among the datagrams it sent
OwnFrames(f, out) ==
    SelectSeq(out, LAMBDA d : /\ ~(DataLen(d.data) < 50)
                              /\ Interpret(d.data).r = "packet"
                              /\ Interpret(d.data).source_address = Addr(f))
\* one frame of its own, toward its follower, with its outbound sequence
\* number
EmitsOne(f) ==
    /\ Len(OwnFrames(f, heard'.out)) = 1
    /\ OwnFrames(f, heard'.out)[1].to = follower_address(f)
    /\ Interpret(OwnFrames(f, heard'.out)[1].data).destination_address = follower_address(f)
    /\ Interpret(OwnFrames(f, heard'.out)[1].data).sequence_number = fleet[f].last_seq_sent
EmitsNone(f) == OwnFrames(f, heard'.out) = <<>>
FromLead(d) == FrameOf(d).source_name = LeadName

\* C18 (as stated): every time a follower that is not the last accepts a
\* frame addressed to it, of the lead or of a peer, it sends exactly one
\* frame of its own toward its follower, with its current outbound
\* sequence number; the last follower never sends a frame of its own.
C18_OutboundRelay ==
    [][\A f \in Followers :
           Hears(Addr(f)) =>
               IF ~IsLast(f) /\ Accepted(f, heard'.d)
               THEN EmitsOne(f)
               ELSE IsLast(f) => EmitsNone(f)]_vars

\* what the accept branch does: a frame of its own on a frame of the lead
\* only, none on a frame of a peer, and none on any other datagram
OutboundRelayOfTheCode ==
    [][\A f \in Followers :
           Hears(Addr(f)) =>
               IF ~IsLast(f) /\ Accepted(f, heard'.d) /\ FromLead(heard'.d)
               THEN EmitsOne(f)
               ELSE EmitsNone(f)]_vars

\* a follower that is not the last accepted the frame of a peer and sent
\* the ack alone
C18_Witness ==
    \E f \in Followers :
        /\ ~IsLast(f)
        /\ heard.d.to = Addr(f)
        /\ IsFrame(heard.d)
        /\ FrameOf(heard.d).destination_address = Addr(f)
        /\ ~FromLead(heard.d)
        /\ Len(heard.out) = 1
        /\ Len(AcksIn(heard.out)) = 1
        /\ fleet[f].last_seq_received > 0

(***************************************************************************)
(* The end of a follower.                                                  *)
(***************************************************************************)
InLoop(f) == fleet[f].fpc = "run"
\* the follower has accepted a frame of the lead with a sequence number of
\* at least the quota
AcceptedFinal(f) == fleet[f].last_seq >= Quota
\* the cache holds the final sequence number with as many destinations as
\* the first
CacheSettled(f) ==
    LET c == fleet[f].flooding_protocol_container
    IN  /\ Quota \in DOMAIN c
        /\ 1 \in DOMAIN c
        /\ Len(c[Quota]) = Len(c[1])
\* the follower has forwarded an ack for the final sequence number
ForwardedFinalAck(f) == fleet[f].last_seq_forwarded = Quota
NeverForwarded(f) == fleet[f].flooding_protocol_container = <<>>
\* the run of the lead is over with every follower at the quota, and no
\* datagram is left that could still arrive
LeadCompleted == pc = "done" /\ AllDelivered /\ net = <<>>

\* a follower that never forwarded a frame is out of its loop once it has
\* accepted a frame of the lead with a sequence number of at least the quota
EmptyCacheExit ==
    \A f \in Followers : (AcceptedFinal(f) /\ NeverForwarded(f)) => ~InLoop(f)

\* C19 (as stated): a follower that has accepted a frame of the lead with
\* sequence number at least the quota, whose cache holds the final sequence
\* number with as many destinations as the first, and that has forwarded
\* an ack for the final sequence number, has left its loop; so has a
\* follower that never forwarded a frame, once it has accepted such a
\* frame; and once the lead has completed with every follower at the quota
\* and nothing is in flight, every follower has left its loop.
C19_FollowerTermination ==
    /\ \A f \in Followers :
           (AcceptedFinal(f) /\ CacheSettled(f) /\ ForwardedFinalAck(f)) => ~InLoop(f)
    /\ EmptyCacheExit
    /\ LeadCompleted => \A f \in Followers : ~InLoop(f)

\* the lead has completed with every follower at the quota, nothing is in
\* flight, and a follower that meets the three conditions is still in its
\* loop, not marked done
C19_Witness ==
    /\ LeadCompleted
    /\ \E f \in Followers :
           /\ InLoop(f)
           /\ AcceptedFinal(f) /\ CacheSettled(f) /\ ForwardedFinalAck(f)
           /\ ~fleet[f].DONE

(***************************************************************************)
(* The flood cache of a follower.                                          *)
(***************************************************************************)
\* the pairs of sequence number and destination that a cache holds
CachePairs(c) ==
    UNION {{<<n, c[n][i]>> : i \in 1 .. Len(c[n])} : n \in DOMAIN c}
\* the pairs of the frames that follower f forwarded
ForwardedPairs(f) ==
    {<<flog[f][i].sequence_number, flog[f][i].destination_address>> :
        i \in {j \in DOMAIN flog[f] : flog[f][j].out # <<>>}}
\* the pass of follower f forwarded the frame it received
ForwardsNow(f) ==
    /\ IsFrame(heard'.d)
    /\ FrameOf(heard'.d).destination_address # Addr(f)
    /\ \E i \in DOMAIN heard'.out :
           /\ heard'.out[i].to = FrameOf(heard'.d).destination_address
           /\ Bytes(heard'.out[i].data) = Bytes(Recv(heard'.d.data, 300))

\* C20: the cache of a follower only grows: what is recorded stays
\* recorded; a pair of sequence number and destination is recorded if and
\* only if the frame was forwarded; a frame that is accepted, dropped for
\* range or suppressed adds no destination.
C20_FloodCacheMonotone ==
    /\ [](\A f \in Followers :
              CachePairs(fleet[f].flooding_protocol_container) = ForwardedPairs(f))
    /\ [][\A f \in Followers :
              LET c == fleet[f].flooding_protocol_container
                  c1 == fleet'[f].flooding_protocol_container
              IN  /\ DOMAIN c \subseteq DOMAIN c1
                  /\ \A n \in DOMAIN c : SubSeq(c1[n], 1, Len(c[n])) = c[n]
                  /\ fleet[f].DONE => fleet'[f].DONE
                  /\ IF Hears(Addr(f)) /\ ForwardsNow(f)
                     THEN CachePairs(c1) =
                              CachePairs(c) \cup
                                  {<<FrameOf(heard'.d).sequence_number,
                                     FrameOf(heard'.d).destination_address>>}
                     ELSE CachePairs(c1) = CachePairs(c)]_vars

\* a follower holds two destinations for one sequence number, and has
\* suppressed a frame whose pair it held
C20_Witness ==
    \E f \in Followers :
        /\ \E n \in DOMAIN fleet[f].flooding_protocol_container :
               Len(fleet[f].flooding_protocol_container[n]) = 2
        /\ \E i \in DOMAIN flog[f] :
               flog[f][i].check = "pass" /\ flog[f][i].out = <<>>

(***************************************************************************)
(* The codec of the acknowledgement.                                       *)
(***************************************************************************)
\* the text was decoded whole, by process_packet
DecodedAck == codec.stage = "decoded"
\* the four fields came back as they were given
AckRoundTrip ==
    codec.result = [r |-> "ack",
                    sequence |-> codec.ack.sequence,
                    origin_address |-> Str(codec.ack.origin_address),
                    destination_address |-> Str(codec.ack.destination_address),
                    vehicle_name |-> codec.ack.vehicle_name]
\* the text does not split into 5 parts at the spaces, or its first part is
\* not ACK
NotFiveOrNotACK(text) ==
    LET values == split(text, SP) IN Len(values) # 5 \/ values[1] # <<W("ACK")>>
\* ... or its second part is not the text of an integer
NoSequence(text) ==
    LET values == split(text, SP) IN Len(values) >= 2 /\ ~IsIntText(values[2])

\* C21 (as stated): process_packet of the ack a follower writes yields the
\* sequence number, the two addresses and the name that the follower put
\* in, whatever they are; and process_packet of a text fails exactly when
\* the text does not split into 5 parts at the spaces or its first part is
\* not ACK.
C21_AckRoundTrip ==
    DecodedAck =>
        /\ codec.kind = "ack" => AckRoundTrip
        /\ (codec.result = Raise) <=> NotFiveOrNotACK(codec.bytes)

\* what process_packet does: the round trip of an ack whose name holds no
\* space, and a failure exactly when the text has not 5 parts, does not
\* start with ACK or has no integer as its second part
OneWord(name) == \A i \in 1 .. Len(name) : name[i] # SP
AckRoundTripOfOneWordNames ==
    DecodedAck =>
        /\ (codec.kind = "ack" /\ OneWord(codec.ack.vehicle_name)) => AckRoundTrip
        /\ (codec.kind = "ack" /\ ~OneWord(codec.ack.vehicle_name)) => codec.result = Raise
        /\ (codec.result = Raise) <=>
               (NotFiveOrNotACK(codec.bytes) \/ NoSequence(codec.bytes))
        /\ (codec.result # Raise) => codec.result.r = "ack"

\* the ack of a follower whose name has two words was refused
C21_Witness ==
    /\ DecodedAck
    /\ codec.kind = "ack"
    /\ codec.ack.vehicle_name = <<W("Fleet"), SP, W("One")>>
    /\ codec.result = Raise

(***************************************************************************)
(* The length of the datagrams.                                            *)
(***************************************************************************)
\* the bytes are an ack that a follower wrote, a frame that a vehicle wrote
WrittenAck == codec.kind = "ack" /\ codec.stage # "given"
WrittenFrame == codec.kind = "frame" /\ codec.stage # "given"
ReadBy(reader) == codec.stage = "read" /\ codec.reader = reader

\* C28 (as stated): every ack a follower writes, with a sequence number up
\* to 9999, addresses of up to 15 characters and the name of the follower,
\* is shorter than 50 bytes, so a follower that reads it takes the ack
\* branch and the lead's recvfrom(50) returns it whole; every telemetry
\* frame a vehicle writes has at least 50 bytes.
C28_AcksClassifyAsAcks ==
    /\ WrittenAck => ByteLen(codec.bytes) < 50
    /\ (WrittenAck /\ ReadBy("follower")) => codec.branch = "ack"
    /\ (WrittenAck /\ ReadBy("lead")) => codec.read = codec.bytes
    /\ WrittenFrame => ByteLen(codec.bytes) >= 50
    /\ (WrittenFrame /\ ReadBy("follower")) => codec.branch = "telemetry"

\* the number of bytes of the ack: the word ACK, four spaces and the fields
AckLength(a) ==
    7 + Digits(a.sequence) + Width(A(a.origin_address)) + Width(A(a.destination_address))
      + ByteLen(a.vehicle_name)

\* what the code does: the length of an ack grows with its fields, a
\* follower takes the ack branch exactly for a datagram below 50 bytes and
\* hands any other to interpret_packet, which makes no Packet of an ack; the
\* lead reads a datagram whole exactly up to 50 bytes; and every telemetry
\* frame has at least 50 bytes.
ClassifiedByLength ==
    /\ WrittenAck => ByteLen(codec.bytes) = AckLength(codec.ack)
    /\ ReadBy("follower") => (codec.branch = "ack" <=> ByteLen(codec.bytes) < 50)
    /\ (WrittenAck /\ ReadBy("follower") /\ codec.branch = "telemetry") =>
           codec.result = None
    /\ ReadBy("lead") => (codec.read = codec.bytes <=> ByteLen(codec.bytes) <= 50)
    /\ WrittenFrame => ByteLen(codec.bytes) >= 50
    /\ (WrittenFrame /\ ReadBy("follower")) => codec.branch = "telemetry"

\* a follower took the ack of another follower, 50 bytes long, for a
\* telemetry frame, and interpret_packet made no Packet of it
C28_Witness ==
    /\ WrittenAck /\ ReadBy("follower")
    /\ codec.ack.sequence = 9999
    /\ codec.ack.vehicle_name = <<W("Follower1")>>
    /\ ByteLen(codec.bytes) = 50
    /\ codec.branch = "telemetry"
    /\ codec.result = None

(***************************************************************************)
(* The retry of a tunneled frame.                                          *)
(***************************************************************************)
\* the datagram d at follower f is a frame of a later round for a pair that
\* f forwarded before: a frame of the lead, from the lead, for another
\* follower, that passes the range check of f, with the sequence number and
\* the destination of a frame that f forwarded and a later timestamp
RetryOfForwarded(f, d) ==
    /\ IsFrame(d)
    /\ d.from = LeadAddr
    /\ FrameOf(d).source_address = LeadAddr
    /\ FrameOf(d).destination_address # Addr(f)
    /\ RangeCheck(f, fleet[f], FrameOf(d), d.from) = "pass"
    /\ \E i \in DOMAIN flog[f] :
           /\ Forwarded(f, i)
           /\ flog[f][i].sequence_number = FrameOf(d).sequence_number
           /\ flog[f][i].destination_address = FrameOf(d).destination_address
           /\ Interpret(flog[f][i].data).timestamp < FrameOf(d).timestamp

\* C22 (as stated): when the lead sends the frame of a flagged follower
\* again in a later round, with the sequence number of a frame that the
\* forwarder forwarded before, the forwarder forwards it to the follower
\* again.
C22_TunneledRetry ==
    [][\A f \in Followers :
           (Hears(Addr(f)) /\ RetryOfForwarded(f, heard'.d)) => ForwardsNow(f)]_vars

\* what the forwarder does with such a frame: it sends nothing and keeps
\* its cache
RetrySuppressed ==
    [][\A f \in Followers :
           (Hears(Addr(f)) /\ RetryOfForwarded(f, heard'.d)) =>
               /\ heard'.out = <<>>
               /\ fleet'[f].flooding_protocol_container =
                      fleet[f].flooding_protocol_container]_vars

\* ... and the consequence: in a run whose only fault is a lost datagram, a
\* follower whose frame was suppressed in this way is never credited with
\* the sequence number of that frame
NoProgressAfterSuppression ==
    faults = <<"lost">> =>
        \A f \in Followers : \A i \in DOMAIN flog[f] :
            (/\ flog[f][i].check = "pass"
             /\ flog[f][i].out = <<>>
             /\ \E j \in 1 .. (i - 1) :
                    /\ Forwarded(f, j) /\ SamePair(f, i, j)
                    /\ Interpret(flog[f][j].data).timestamp
                           < Interpret(flog[f][i].data).timestamp) =>
                \A g \in Followers :
                    flog[f][i].destination_address = Addr(g) =>
                        last_received[g] < flog[f][i].sequence_number

\* a follower is flagged, a datagram was lost, the forwarder received the
\* frame of the follower once more in a later round and sent nothing, and
\* the follower, in its loop, is where it was for the lead
C22_Witness ==
    /\ faults = <<"lost">>
    /\ \E f \in Followers : \E g \in Followers \ {f} :
           /\ heard.d.to = Addr(f)
           /\ heard.out = <<>>
           /\ out_of_range[g]
           /\ InLoop(f) /\ InLoop(g)
           /\ last_received[g] < last_attempted[g]
           /\ Len(flog[f]) >= 2
           /\ LET first == flog[f][1]
                  last == flog[f][Len(flog[f])]
              IN  /\ last.data = Recv(heard.d.data, 300)
                  /\ last.destination_address = Addr(g)
                  /\ last.sequence_number = last_attempted[g]
                  /\ last.check = "pass"
                  /\ last.out = <<>>
                  /\ \E i \in 1 .. (Len(flog[f]) - 1) :
                         /\ Forwarded(f, i)
                         /\ flog[f][i].sequence_number = last.sequence_number
                         /\ flog[f][i].destination_address = last.destination_address
                         /\ Interpret(flog[f][i].data).timestamp
                                < Interpret(last.data).timestamp

(***************************************************************************)
(* The way of the acknowledgements.                                        *)
(***************************************************************************)
\* the address of the vehicle ahead of follower f in the chain
Ahead(f) == IF f = 0 THEN LeadAddr ELSE Addr(f - 1)
\* the datagram d at follower f is an ack for another vehicle
AckToRelay(f, d) == IsAck(d) /\ AckIn(d).destination_address # Str(Addr(f))

\* C23 (as stated): the address the order-0 follower learns as its
\* following address is that of the lead, and a follower sends an ack that
\* it relays to the vehicle ahead of it and never back to the vehicle that
\* sent it.
C23_AcksTowardLead ==
    /\ [](fleet[0].following_address \in {NoAddress, LeadAddr})
    /\ [][\A f \in Followers :
              (Hears(Addr(f)) /\ AckToRelay(f, heard'.d)) =>
                  \A i \in DOMAIN heard'.out :
                      /\ heard'.out[i].to = Ahead(f)
                      /\ heard'.out[i].to # heard'.d.from]_vars

\* what the code does: a follower behind the first keeps the address it was
\* started with, the order-0 follower takes as its following address the
\* sender of the first ack it receives or of the first frame it accepts,
\* whoever that is, and every relayed ack goes to the following address
AcksToFollowingAddress ==
    /\ [](\A f \in Followers \ {0} : fleet[f].following_address = Addr(f - 1))
    /\ [][(Hears(Addr(0)) /\ fleet[0].following_address = NoAddress
              /\ (IsAck(heard'.d) \/ Accepted(0, heard'.d))) =>
                 fleet'[0].following_address = heard'.d.from]_vars
    /\ [][\A f \in Followers :
              (Hears(Addr(f)) /\ AckToRelay(f, heard'.d)) =>
                  \A i \in DOMAIN heard'.out :
                      heard'.out[i].to = Upstream(f, heard'.d)]_vars

\* the order-0 follower, whose own frames were lost, holds the address of a
\* follower behind it as its following address and has sent the ack of that
\* follower back to it, after the ack has been to both of them already
C23_Witness ==
    \E g \in Followers \ {0} :
        /\ faults = <<"lost", "lost">>
        /\ fleet[0].following_address = Addr(g)
        /\ heard.d.to = Addr(0)
        /\ heard.d.from = Addr(g)
        /\ AckToRelay(0, heard.d)
        /\ AckIn(heard.d).origin_address = Str(Addr(g))
        /\ heard.d.age >= 4
        /\ Len(heard.out) = 1
        /\ heard.out[1].to = Addr(g)

(***************************************************************************)
(* The delivery counters of the lead.                                      *)
(***************************************************************************)
\* the counters of follower f are within their bounds
InBounds(f) ==
    /\ 0 <= last_received[f]
    /\ last_received[f] <= last_attempted[f]
    /\ last_attempted[f] <= Quota
\* the lead counts no more deliveries for follower f than f accepted
\* sequence numbers of the lead
NoMoreThanAccepted(f) == last_received[f] <= Cardinality(accepted[f])

\* C24 (as stated): for every follower, in every state,
\* 0 <= last_received <= last_attempted <= quota, and last_received is at
\* most the number of distinct sequence numbers of the lead that the
\* follower accepted.
C24_CountersInBounds ==
    \A f \in Followers : InBounds(f) /\ NoMoreThanAccepted(f)

\* what the code keeps: last_received never goes down from 0, and
\* last_attempted is at least 1 and at most one above last_received; the
\* bounds of the claim hold in the runs in which no datagram is duplicated
\* and none arrives after the timeout of its round
InBoundsUnder(kinds) ==
    (\A i \in DOMAIN faults : faults[i] \in kinds) =>
        \A f \in Followers : InBounds(f) /\ NoMoreThanAccepted(f)
CountersOfTheCode ==
    /\ \A f \in Followers :
           /\ 0 <= last_received[f]
           /\ 1 <= last_attempted[f]
           /\ last_attempted[f] <= last_received[f] + 1
    /\ InBoundsUnder({"lost", "stopped", "reordered", "stray"})

\* the ack of a follower was duplicated, and the lead counts more
\* deliveries for it than it attempted and than the follower accepted
C24_Witness ==
    /\ faults = <<"duplicated">>
    /\ \E f \in Followers :
           /\ last_received[f] > last_attempted[f]
           /\ last_received[f] > Cardinality(accepted[f])

(***************************************************************************)
(* The end of the listen phase.                                            *)
(***************************************************************************)
\* the step ends the listen phase on a datagram: the count of the datagrams
\* received has reached the number of frames sent
EndsByCount == pc = "listen" /\ pc' \in {"loop", "done"} /\ Hears(LeadAddr)
\* every follower that was sent a frame in the round is acknowledged
AllAcknowledged ==
    \A f \in Followers :
        SentFor(sends, f) # {} => last_received'[f] = last_attempted'[f]

\* C25 (as stated): whenever the listen phase ends because the count of
\* acks reached the number of frames sent, every follower that was sent a
\* frame in the round has last_received equal to last_attempted.
C25_ListenEndsAcknowledged ==
    [][EndsByCount => AllAcknowledged]_vars

\* what the code does: the phase ends when as many datagrams were received
\* as frames were sent, whoever acknowledged what; every follower is
\* acknowledged then in the runs in which no datagram is duplicated and none
\* arrives after the timeout of its round
ListenEndsByCount(kinds) ==
    EndsByCount =>
        /\ acknowledgements_received' = packets_sent
        /\ packets_sent = Len(sends)
        /\ (\A i \in DOMAIN faults : faults[i] \in kinds) => AllAcknowledged
ListenEndOfTheCode ==
    [][ListenEndsByCount({"lost", "stopped", "reordered", "stray"})]_vars

\* the listen phase has ended on the second copy of an ack, every datagram
\* counted, and a follower that was sent a frame is not acknowledged
C25_Witness ==
    /\ faults = <<"duplicated">>
    /\ pc = "loop"
    /\ heard.d.to = LeadAddr
    /\ acknowledgements_received = packets_sent
    /\ \E f \in Followers :
           /\ SentFor(sends, f) # {}
           /\ last_received[f] < last_attempted[f]
           /\ ~out_of_range[f]

(***************************************************************************)
(* The follower and the retries of the lead.                               *)
(***************************************************************************)
\* the follower has left its loop: by the exit check, the loop condition or
\* the break of the ack branch
HasLeft(f) == fleet[f].fpc = "done"
\* the sweep sends no frame for a follower that has left its loop
SweepsForTheRunning ==
    Sweeps => \A f \in Followers : SentFor(sends', f) # {} => ~HasLeft(f)
\* the only fault of the run is one lost datagram, the order-0 follower has
\* accepted the final sequence number and the lead lacks the ack of it
FinalAckOfHeadLost ==
    /\ faults = <<"lost">>
    /\ Quota \in accepted[0]
    /\ last_received[0] = Quota - 1

\* C26 (as stated): a follower has not left its loop when the lead sends a
\* frame for it, that is while the lead's last_received for it is below the
\* quota; and when the ack of the order-0 follower for the final sequence
\* number is lost, the only fault of the run, the lead does not abort.
C26_FollowerOutlives ==
    /\ [][SweepsForTheRunning]_vars
    /\ [](FinalAckOfHeadLost => pc # "fatal")

\* what the code keeps: in a run without a fault the sweep sends no frame
\* for a follower that has left
OutlivesWithoutFault ==
    [][faults = <<>> => SweepsForTheRunning]_vars

\* the order-0 follower left its loop when it had accepted the final
\* sequence number; its ack was lost, the lead sent the frame again twice
\* to no avail and has aborted
C26_Witness ==
    /\ FinalAckOfHeadLost
    /\ HasLeft(0)
    /\ fleet[0].last_seq = Quota
    /\ pc = "fatal"
    /\ error = "order0"
    /\ missed0 = 2

(***************************************************************************)
(* The unreachable flag.                                                   *)
(***************************************************************************)
\* the sweep sends the frame of a flagged follower, unless it skips the
\* follower, to the address of a follower ahead of it, not to its own
FlaggedGoThroughForwarder ==
    \A f \in Followers :
        (out_of_range[f] /\ ~Skipped(f)) =>
            /\ SentFor(sends', f) # {}
            /\ \A i \in SentFor(sends', f) :
                   /\ sends'[i].d.to # Addr(f)
                   /\ \E h \in Followers : h < f /\ sends'[i].d.to = Addr(h)

\* C27: a follower that is flagged unreachable stays flagged in every later
\* state, whatever acks arrive, and every sweep sends its frame to the
\* address of a forwarder and never to its own.
C27_UnreachableSticky ==
    /\ [][\A f \in Followers : out_of_range[f] => out_of_range'[f]]_vars
    /\ [][Sweeps => FlaggedGoThroughForwarder]_vars
    /\ [][Sweeps =>
              \A f \in Followers : \A i \in SentFor(sends', f) :
                  out_of_range[f] => sends'[i].d.to # Addr(f)]_vars

\* a follower that was flagged in round 1 has been acknowledged twice
\* since, is still flagged, and its frame of this round went to a forwarder
C27_Witness ==
    /\ pc = "listen"
    /\ \E f \in Followers :
           /\ out_of_range[f]
           /\ last_received[f] >= 2
           /\ last_received[f] = Cardinality(accepted[f])
           /\ \E i \in SentFor(sends, f) : \E h \in Followers :
                  h < f /\ sends[i].d.to = Addr(h)

====
